---- MODULE Spec2Model ----
(***************************************************************************)
(* MangaNotify: the watchlist poller (services/poller.py), the             *)
(* notification history (services/notifications.py) and the JSON stores    *)
(* they read and write.                                                     *)
(***************************************************************************)
EXTENDS Integers, Sequences, FiniteSets, TLC

(***************************************************************************)
(* Bounds of the model and constants of the program.                        *)
(***************************************************************************)
\* Largest total_chapters the upstream reports.
MaxTotal == 2
\* Number of passes a behaviour runs; also the range of the clock.
MaxPasses == 2
\* `while attempts < 3` in process_once.
MaxAttempts == 3
\* Number of requests to the watchlist endpoints a behaviour makes.
MaxEdits == 2
\* Number of requests to the notification endpoints a behaviour makes.
MaxOps == 4
\* The largest of the small polling intervals, in seconds.
MaxInterval == 3

Procs == {"sched", "manual"}
\* The task whose passes the sequential specification runs.
Poller == "sched"
\* The handler of a request to POST /api/watchlist/refresh.
Manual == "manual"

(***************************************************************************)
(* Python values.  An optional integer (None or an int) is a record, so    *)
(* that None never compares equal to a number.                              *)
(***************************************************************************)
None == [known |-> FALSE, v |-> 0]
Some(n) == [known |-> TRUE, v |-> n]

\* JSON values a total_chapters / last_read field can hold.  A decimal
\* ("dec") carries its value in tenths; a numeric string carries its value.
JNull == [k |-> "null", v |-> 0]
JInt(n) == [k |-> "int", v |-> n]
JNumStr(n) == [k |-> "numstr", v |-> n]
JDec(tenths) == [k |-> "dec", v |-> tenths]
JText == [k |-> "text", v |-> 0]
JEmpty == [k |-> "empty", v |-> 0]

\* int(float(s)) truncates toward zero.
TruncTenths(t) == IF t >= 0 THEN t \div 10 ELSE -((-t) \div 10)

\* core/utils.py to_int: None, "" and non-numeric text give None; an int, a
\* numeric string or a decimal gives an int (a negative one stays negative).
to_int(j) ==
  CASE j.k = "null" -> None
    [] j.k = "empty" -> None
    [] j.k = "text" -> None
    [] j.k = "int" -> Some(j.v)
    [] j.k = "numstr" -> Some(j.v)
    [] j.k = "dec" -> Some(TruncTenths(j.v))

\* Python's `x or d` on an optional integer: None and 0 are falsy.
OrInt(o, d) == IF o.known /\ o.v # 0 THEN o.v ELSE d

Max(a, b) == IF a >= b THEN a ELSE b

\* dict.get(key, default) followed by a truth test, for the preference
\* flags: "absent" is a missing key.
GetFlag(f, default) == IF f = "absent" THEN default ELSE f = "yes"

Statuses == {"reading", "releasing", "to-read", "on-hold", "finished", "dropped"}

(***************************************************************************)
(* Upstream records (the /v1/series/{id}/full payload).                     *)
(***************************************************************************)
Ids == 1 .. 3

NoCover == [small |-> "", default |-> "", raw |-> ""]

\* services/watchlist.py pick_cover: small, else default, else raw; "" is None.
pick_cover(series) ==
  IF series.cover.small # "" THEN series.cover.small
  ELSE IF series.cover.default # "" THEN series.cover.default
  ELSE series.cover.raw

\* services/watchlist.py derive_last_chapter_at: the record's own
\* last_updated_at, else the first source that carries one; "" is None.
RECURSIVE FirstTs(_)
FirstTs(s) == IF s = <<>> THEN ""
              ELSE IF Head(s) # "" THEN Head(s) ELSE FirstTs(Tail(s))

derive_last_chapter_at(series) ==
  IF series.last_updated_at # "" THEN series.last_updated_at
  ELSE FirstTs(series.source)

\* The display fields of the three upstream records; they do not change.
UpTitle(id) == CASE id = 1 -> "One" [] id = 2 -> "Two" [] OTHER -> ""
UpCover(id) == CASE id = 1 -> [small |-> "s1", default |-> "d1", raw |-> "r1"]
                 [] id = 2 -> NoCover
                 [] OTHER -> [small |-> "", default |-> "", raw |-> "r3"]
UpUpdated(id) == IF id = 1 THEN "u1" ELSE ""
UpSource(id) == IF id = 3 THEN <<"", "m3">> ELSE <<"", "">>

Series(id, total, st, mw) ==
  [title |-> UpTitle(id), total_chapters |-> total, state |-> st,
   merged_with |-> mw, cover |-> UpCover(id),
   last_updated_at |-> UpUpdated(id), source |-> UpSource(id)]

NoSeries == [title |-> "", total_chapters |-> JNull, state |-> "",
             merged_with |-> 0, cover |-> NoCover, last_updated_at |-> "",
             source |-> <<>>]

(***************************************************************************)
(* State.                                                                   *)
(***************************************************************************)
VARIABLES
  watchlist,   \* DATA_DIR/watchlist.json: the list load_watchlist returns
  history,     \* NOTIFY_PATH: the list load_notifications returns
  upstream,    \* id -> the record the upstream API serves for it
  down,        \* id -> how many leading requests of a fetch the API fails
  clock,       \* now_utc_iso()
  pc,          \* per task: where its process_once is suspended
  wl,          \* per task: the list process_once loaded and mutates
  idx,         \* per task: position of `it` in wl
  loc,         \* per task: the locals of the loop body
  loaded,      \* per task: the list as load_watchlist returned it
  obs,         \* per task, per position: what the pass did for the item
  call,        \* a single call of a pure function: its argument and result
  ret,         \* per task: how its last process_once ended, and its result
  written,     \* the calls of save_json so far, oldest first
  started,     \* per task: the clock when its pass loaded the list
  poll_stats,  \* app.state.poll_stats
  task         \* the poller task: where poll_loop is, and its cancellation

storeVars == <<watchlist, history>>
envVars == <<upstream, down>>
passVars == <<pc, wl, idx, loc>>
obsVars == <<loaded, obs>>
logVars == <<ret, written, started>>
loopVars == <<poll_stats, task>>
vars == <<watchlist, history, upstream, down, clock, pc, wl, idx, loc, loaded, obs, call,
          ret, written, started, poll_stats, task>>

NoPrefs == [enabled |-> "absent", pushover |-> "absent", discord |-> "absent",
            only_when_reading |-> "absent"]

Item(id, title, total, lr, st, prefs) ==
  [id |-> id, title |-> title, total_chapters |-> total, last_read |-> lr,
   status |-> st, cover |-> "", last_chapter_at |-> "", last_checked |-> 0,
   notifications |-> prefs]

LocInit == [attempts |-> 0, last_exc |-> FALSE, series |-> NoSeries,
            new_total |-> None, old_total |-> None, last_read |-> 0,
            unread |-> 0, should_notify |-> FALSE,
            pushover_result |-> "none", discord_result |-> "none"]

NoCall == [fn |-> "none"]

\* process_once has not returned: no result.
NoRet == [kind |-> "none", checked |-> 0]

\* poller.py:119, with 0 for None; and a poller task that was never created.
NoStats == [last_ok |-> 0, last_error |-> 0]
NoTask == [at |-> "off", cancel |-> FALSE, interval |-> 0]

ObsInit == [fetches |-> 0, refetches |-> 0, fetched |-> FALSE,
            series |-> NoSeries, pushCalls |-> 0, discCalls |-> 0,
            recorded |-> 0, updated |-> FALSE, raised |-> FALSE]

(***************************************************************************)
(* Initial states: a two-entry watchlist and the upstream records of its   *)
(* ids and of id 3, the target of a merge.  Two families of inputs: in the *)
(* first the upstream side of entry 1 varies (its total, the failures of   *)
(* its fetch, a merge into id 3), in the second the notification           *)
(* preferences of entry 1 vary.  Entry 2 has no notifications key.         *)
(***************************************************************************)
Flags == {"yes", "no"}

UpTotals == {JNull, JText} \cup {JInt(n) : n \in 0 .. MaxTotal}
StoredTotals == {JNull, JInt(1)}

Prefs(e, po, di, owr) ==
  [enabled |-> e, pushover |-> po, discord |-> di, only_when_reading |-> owr]

Entry2 == Item(2, "Old2", JInt(1), 0, "releasing", NoPrefs)

InitStores(it1) ==
  /\ watchlist = <<it1, Entry2>>
  /\ history = <<>>
  /\ clock = 0
  /\ pc = [p \in Procs |-> "idle"]
  /\ wl = [p \in Procs |-> <<>>]
  /\ idx = [p \in Procs |-> 0]
  /\ loc = [p \in Procs |-> LocInit]
  /\ loaded = [p \in Procs |-> <<>>]
  /\ obs = [p \in Procs |-> <<>>]
  /\ ret = [p \in Procs |-> NoRet]
  /\ written = <<>>
  /\ started = [p \in Procs |-> 0]
  /\ poll_stats = NoStats

InitFetchFamily ==
  \E st \in StoredTotals, e \in Flags, status \in {"reading", "finished"},
     t1 \in UpTotals, d1 \in 0 .. MaxAttempts, mw \in {0, 3},
     t3 \in {JNull, JInt(MaxTotal)}, d3 \in {0, 1}, d2 \in {0, MaxAttempts} :
    /\ mw = 0 => (t3 = JNull /\ d3 = 0)
    /\ InitStores(Item(1, "Old1", st, 0, status, Prefs(e, "yes", "yes", "yes")))
    /\ upstream = [i \in Ids |->
                     CASE i = 1 -> Series(1, t1, IF mw = 0 THEN "active" ELSE "merged", mw)
                       [] i = 2 -> Series(2, JInt(MaxTotal), "active", 0)
                       [] OTHER -> Series(3, t3, "active", 0)]
    /\ down = [i \in Ids |-> CASE i = 1 -> d1 [] i = 2 -> d2 [] OTHER -> d3]

InitPolicyFamily ==
  \E e \in Flags, po \in Flags, di \in Flags, owr \in Flags,
     status \in {"reading", "on-hold"}, lr \in {0, MaxTotal},
     t1 \in {JInt(1), JInt(MaxTotal)} :
    /\ InitStores(Item(1, "Old1", JInt(1), lr, status, Prefs(e, po, di, owr)))
    /\ upstream = [i \in Ids |->
                     CASE i = 1 -> Series(1, t1, "active", 0)
                       [] i = 2 -> Series(2, JInt(MaxTotal), "active", 0)
                       [] OTHER -> Series(3, JNull, "active", 0)]
    /\ down = [i \in Ids |-> 0]

Init == (InitFetchFamily \/ InitPolicyFamily) /\ call = NoCall /\ task = NoTask

(***************************************************************************)
(* process_once (services/poller.py), one action per suspension point.     *)
(***************************************************************************)
\* The policy without the `enabled` test.
ShouldSend_IgnoresEnabled(series_item) ==
  ~(GetFlag(series_item.notifications.only_when_reading, TRUE)
    /\ (IF series_item.status = "absent" THEN "reading" ELSE series_item.status)
         \notin {"reading", "releasing"})

\* The policy without the status test.
ShouldSend_IgnoresStatus(series_item) ==
  GetFlag(series_item.notifications.enabled, TRUE)

\* The policy with a missing only_when_reading key read as false.
ShouldSend_DefaultOff(series_item) ==
  IF ~GetFlag(series_item.notifications.enabled, TRUE) THEN FALSE
  ELSE IF GetFlag(series_item.notifications.only_when_reading, FALSE)
          /\ (IF series_item.status = "absent" THEN "reading" ELSE series_item.status)
               \notin {"reading", "releasing"}
       THEN FALSE
  ELSE TRUE

\* poller.py:10-24.
_should_send_notification(series_item) ==
  IF ~GetFlag(series_item.notifications.enabled, TRUE) THEN FALSE
  ELSE IF GetFlag(series_item.notifications.only_when_reading, TRUE)
          /\ (IF series_item.status = "absent" THEN "reading" ELSE series_item.status)
               \notin {"reading", "releasing"}
       THEN FALSE
  ELSE TRUE

\* `for it in wl: sid = it.get("id"); if not sid: continue`: the position of
\* the next entry after i that has an id, Len + 1 when there is none.
RECURSIVE NextIdx(_, _)
NextIdx(list, i) ==
  IF i + 1 > Len(list) THEN Len(list) + 1
  ELSE IF list[i + 1].id # 0 THEN i + 1 ELSE NextIdx(list, i + 1)

\* The loop moves on to the next entry (a `continue`, or the end of the
\* body); after the last entry the pass is at save_watchlist.
GoNext(p, newWl) ==
  LET j == NextIdx(newWl, idx[p]) IN
    /\ wl' = [wl EXCEPT ![p] = newWl]
    /\ idx' = [idx EXCEPT ![p] = j]
    /\ pc' = [pc EXCEPT ![p] = IF j > Len(newWl) THEN "save" ELSE "fetch"]
    /\ loc' = [loc EXCEPT ![p] = LocInit]

\* api_series_by_id(client, sid): the request number n (from 0) for sid
\* raises while the API is down for it, and for an id the API does not know.
FetchRaises(sid, n) == sid \notin Ids \/ n < down[sid]

\* poller.py:29-32: load the list and reach the first fetch.
Load(p) ==
  /\ pc[p] = "idle"
  /\ clock < MaxPasses
  /\ clock' = clock + 1
  /\ LET j == NextIdx(watchlist, 0) IN
       /\ wl' = [wl EXCEPT ![p] = watchlist]
       /\ idx' = [idx EXCEPT ![p] = j]
       /\ pc' = [pc EXCEPT ![p] = IF j > Len(watchlist) THEN "save" ELSE "fetch"]
       /\ loc' = [loc EXCEPT ![p] = LocInit]
  /\ loaded' = [loaded EXCEPT ![p] = watchlist]
  /\ obs' = [obs EXCEPT ![p] = [i \in 1 .. Len(watchlist) |-> ObsInit]]
  /\ started' = [started EXCEPT ![p] = clock + 1]
  /\ ret' = [ret EXCEPT ![p] = NoRet]
  /\ UNCHANGED <<call, written, storeVars, envVars>>

\* A call of process_once by a caller other than poll_loop.
StartPass(p) == Load(p) /\ UNCHANGED loopVars

\* The give-up leaves the loop (`break`) instead of moving on (`continue`).
FetchFail_Break(p) ==
  /\ pc[p] = "fetch"
  /\ FetchRaises(wl[p][idx[p]].id, loc[p].attempts)
  /\ obs' = [obs EXCEPT ![p][idx[p]].fetches = @ + 1]
  /\ IF loc[p].attempts + 1 >= MaxAttempts
       THEN /\ idx' = [idx EXCEPT ![p] = Len(wl[p]) + 1]
            /\ pc' = [pc EXCEPT ![p] = "save"]
            /\ loc' = [loc EXCEPT ![p] = LocInit]
            /\ wl' = wl
       ELSE /\ loc' = [loc EXCEPT ![p].attempts = @ + 1, ![p].last_exc = TRUE]
            /\ UNCHANGED <<pc, wl, idx>>
  /\ UNCHANGED <<call, loopVars, logVars, storeVars, envVars, clock, loaded>>

\* The give-up stamps the entry as checked.
FetchFail_Stamps(p) ==
  /\ pc[p] = "fetch"
  /\ FetchRaises(wl[p][idx[p]].id, loc[p].attempts)
  /\ obs' = [obs EXCEPT ![p][idx[p]].fetches = @ + 1]
  /\ IF loc[p].attempts + 1 >= MaxAttempts
       THEN GoNext(p, [wl[p] EXCEPT ![idx[p]].last_checked = clock])
       ELSE /\ loc' = [loc EXCEPT ![p].attempts = @ + 1, ![p].last_exc = TRUE]
            /\ UNCHANGED <<pc, wl, idx>>
  /\ UNCHANGED <<call, loopVars, logVars, storeVars, envVars, clock, loaded>>

\* The retry loop makes one attempt more before it gives the entry up.
FetchFail_OneMore(p) ==
  /\ pc[p] = "fetch"
  /\ FetchRaises(wl[p][idx[p]].id, loc[p].attempts)
  /\ obs' = [obs EXCEPT ![p][idx[p]].fetches = @ + 1]
  /\ IF loc[p].attempts + 1 >= MaxAttempts + 1
       THEN GoNext(p, wl[p])
       ELSE /\ loc' = [loc EXCEPT ![p].attempts = @ + 1, ![p].last_exc = TRUE]
            /\ UNCHANGED <<pc, wl, idx>>
  /\ UNCHANGED <<call, loopVars, logVars, storeVars, envVars, clock, loaded>>

\* poller.py:37-47, a request that raises: count it, sleep, and after the
\* third give the entry up for this pass.
FetchFail(p) ==
  /\ pc[p] = "fetch"
  /\ FetchRaises(wl[p][idx[p]].id, loc[p].attempts)
  /\ obs' = [obs EXCEPT ![p][idx[p]].fetches = @ + 1]
  /\ IF loc[p].attempts + 1 >= MaxAttempts
       THEN GoNext(p, wl[p])
       ELSE /\ loc' = [loc EXCEPT ![p].attempts = @ + 1, ![p].last_exc = TRUE]
            /\ UNCHANGED <<pc, wl, idx>>
  /\ UNCHANGED <<call, loopVars, logVars, storeVars, envVars, clock, loaded>>

\* poller.py:39-40, 49-52: the request returns; `series = data.get("data") or
\* data`; a merged record moves the entry to the id it was merged with.
IsMerged(series) == series.state = "merged" /\ series.merged_with # 0

\* The merged record leaves the id of the entry alone.
FetchOk_KeepsId(p) ==
  /\ pc[p] = "fetch"
  /\ ~FetchRaises(wl[p][idx[p]].id, loc[p].attempts)
  /\ LET series == upstream[wl[p][idx[p]].id] IN
       /\ obs' = [obs EXCEPT ![p][idx[p]].fetches = @ + 1,
                             ![p][idx[p]].fetched = ~IsMerged(series),
                             ![p][idx[p]].series = series]
       /\ loc' = [loc EXCEPT ![p].series = series]
       /\ wl' = wl
       /\ pc' = [pc EXCEPT ![p] = IF IsMerged(series) THEN "refetch" ELSE "diff"]
  /\ UNCHANGED <<call, loopVars, logVars, storeVars, envVars, clock, idx, loaded>>

FetchOk(p) ==
  /\ pc[p] = "fetch"
  /\ ~FetchRaises(wl[p][idx[p]].id, loc[p].attempts)
  /\ LET series == upstream[wl[p][idx[p]].id] IN
       /\ obs' = [obs EXCEPT ![p][idx[p]].fetches = @ + 1,
                             ![p][idx[p]].fetched = ~IsMerged(series),
                             ![p][idx[p]].series = series]
       /\ loc' = [loc EXCEPT ![p].series = series]
       /\ IF IsMerged(series)
            THEN /\ wl' = [wl EXCEPT ![p][idx[p]].id = series.merged_with]
                 /\ pc' = [pc EXCEPT ![p] = "refetch"]
            ELSE /\ wl' = wl
                 /\ pc' = [pc EXCEPT ![p] = "diff"]
  /\ UNCHANGED <<call, loopVars, logVars, storeVars, envVars, clock, idx, loaded>>

\* poller.py:53-54: the single request for the merge target; when it raises
\* the handler at 109-111 moves on to the next entry.
Refetch(p) ==
  /\ pc[p] = "refetch"
  /\ IF FetchRaises(wl[p][idx[p]].id, 0)
       THEN /\ obs' = [obs EXCEPT ![p][idx[p]].refetches = @ + 1,
                                  ![p][idx[p]].raised = TRUE]
            /\ GoNext(p, wl[p])
       ELSE /\ obs' = [obs EXCEPT ![p][idx[p]].refetches = @ + 1,
                                  ![p][idx[p]].fetched = TRUE,
                                  ![p][idx[p]].series = upstream[wl[p][idx[p]].id]]
            /\ loc' = [loc EXCEPT ![p].series = upstream[wl[p][idx[p]].id]]
            /\ pc' = [pc EXCEPT ![p] = "diff"]
            /\ UNCHANGED <<wl, idx>>
  /\ UNCHANGED <<call, loopVars, logVars, storeVars, envVars, clock, loaded>>

\* poller.py:62-63: f"{title} now has {new_total} chapters." and, when
\* unread > 0, " You're {unread} behind."  behind = 0 is the short message.
Message(title, new_total, unread) ==
  [title |-> title, total |-> new_total, behind |-> IF unread > 0 THEN unread ELSE 0]

\* poller.py:56-60 and 61-76: the diff, the policy decision and the choice
\* of the first channel, up to the next await.
Progress(new_total, old_total) ==
  new_total.known /\ old_total.known /\ new_total.v > old_total.v

\* The unread count is taken from the stored total, not from last_read.
Diff_UnreadFromOld(p) ==
  /\ pc[p] = "diff"
  /\ LET it == wl[p][idx[p]]
         new_total == to_int(loc[p].series.total_chapters)
         old_total == to_int(it.total_chapters)
         last_read == OrInt(to_int(JInt(it.last_read)), 0)
         should_notify == _should_send_notification(it)
     IN
       /\ loc' = [loc EXCEPT ![p].new_total = new_total,
                             ![p].old_total = old_total,
                             ![p].last_read = last_read,
                             ![p].unread = IF Progress(new_total, old_total)
                                             THEN Max(new_total.v - old_total.v, 0) ELSE 0,
                             ![p].should_notify = Progress(new_total, old_total) /\ should_notify]
       /\ pc' = [pc EXCEPT ![p] =
                   IF ~Progress(new_total, old_total) THEN "update"
                   ELSE IF ~should_notify THEN "record"
                   ELSE IF GetFlag(it.notifications.pushover, TRUE) THEN "push"
                   ELSE IF GetFlag(it.notifications.discord, TRUE) THEN "discord"
                   ELSE "record"]
  /\ UNCHANGED <<call, loopVars, logVars, storeVars, envVars, clock, wl, idx, obsVars>>

\* An approved event goes to Pushover whatever the preference of the entry.
Diff_IgnoresChannelPrefs(p) ==
  /\ pc[p] = "diff"
  /\ LET it == wl[p][idx[p]]
         new_total == to_int(loc[p].series.total_chapters)
         old_total == to_int(it.total_chapters)
         last_read == OrInt(to_int(JInt(it.last_read)), 0)
         should_notify == _should_send_notification(it)
     IN
       /\ loc' = [loc EXCEPT ![p].new_total = new_total,
                             ![p].old_total = old_total,
                             ![p].last_read = last_read,
                             ![p].unread = IF Progress(new_total, old_total)
                                             THEN Max(new_total.v - last_read, 0) ELSE 0,
                             ![p].should_notify = Progress(new_total, old_total) /\ should_notify]
       /\ pc' = [pc EXCEPT ![p] =
                   IF ~Progress(new_total, old_total) THEN "update"
                   ELSE IF ~should_notify THEN "record"
                   ELSE "push"]
  /\ UNCHANGED <<call, loopVars, logVars, storeVars, envVars, clock, wl, idx, obsVars>>

Diff(p) ==
  /\ pc[p] = "diff"
  /\ LET it == wl[p][idx[p]]
         new_total == to_int(loc[p].series.total_chapters)
         old_total == to_int(it.total_chapters)
         last_read == OrInt(to_int(JInt(it.last_read)), 0)
         should_notify == _should_send_notification(it)
     IN
       /\ loc' = [loc EXCEPT ![p].new_total = new_total,
                             ![p].old_total = old_total,
                             ![p].last_read = last_read,
                             ![p].unread = IF Progress(new_total, old_total)
                                             THEN Max(new_total.v - last_read, 0) ELSE 0,
                             ![p].should_notify = Progress(new_total, old_total) /\ should_notify]
       /\ pc' = [pc EXCEPT ![p] =
                   IF ~Progress(new_total, old_total) THEN "update"
                   ELSE IF ~should_notify THEN "record"
                   ELSE IF GetFlag(it.notifications.pushover, TRUE) THEN "push"
                   ELSE IF GetFlag(it.notifications.discord, TRUE) THEN "discord"
                   ELSE "record"]
  /\ UNCHANGED <<call, loopVars, logVars, storeVars, envVars, clock, wl, idx, obsVars>>

\* notifications.py:24-41 pushover, awaited at poller.py:79.  It answers
\* ok, answers not ok (missing credentials, a non-200 status), or raises (the
\* HTTP call is not guarded); the raise reaches the handler at 109-111.
PushOutcomes == {"ok", "notok", "raise"}

Pushover(p) ==
  /\ pc[p] = "push"
  /\ \E out \in PushOutcomes :
       IF out = "raise"
         THEN /\ obs' = [obs EXCEPT ![p][idx[p]].pushCalls = @ + 1,
                                    ![p][idx[p]].raised = TRUE]
              /\ GoNext(p, wl[p])
         ELSE /\ obs' = [obs EXCEPT ![p][idx[p]].pushCalls = @ + 1]
              /\ loc' = [loc EXCEPT ![p].pushover_result = out]
              /\ pc' = [pc EXCEPT ![p] =
                          IF GetFlag(wl[p][idx[p]].notifications.discord, TRUE)
                            THEN "discord" ELSE "record"]
              /\ UNCHANGED <<wl, idx>>
  /\ UNCHANGED <<call, loopVars, logVars, storeVars, envVars, clock, loaded>>

\* notifications.py:43-65 discord_notify, awaited at poller.py:83: ok or not
\* ok; its HTTP call is inside a try block.
DiscordOutcomes == {"ok", "notok"}

Discord(p) ==
  /\ pc[p] = "discord"
  /\ \E out \in DiscordOutcomes :
       loc' = [loc EXCEPT ![p].discord_result = out]
  /\ obs' = [obs EXCEPT ![p][idx[p]].discCalls = @ + 1]
  /\ pc' = [pc EXCEPT ![p] = "record"]
  /\ UNCHANGED <<call, loopVars, logVars, storeVars, envVars, clock, wl, idx, loaded>>

\* json_store.py:11-15 as the pass calls it: who wrote, in the pass loaded at
\* which time, which file, whether write_text returned, and the list.
Wrote(p, store, ok, list) ==
  [by |-> p, pass |-> started[p], store |-> store, ok |-> ok, list |-> list]

\* The next id is the number of stored events plus one.
next_notification_id_Counts(items) == Len(items) + 1

\* The record goes to the end of the stored list.
add_notification_Appends(items, kind, payload, now) ==
  items \o
  <<[id |-> (IF items = <<>> THEN 0
             ELSE CHOOSE m \in {items[i].id : i \in DOMAIN items} :
                    \A i \in DOMAIN items : items[i].id <= m) + 1,
     kind |-> kind, detected_at |-> now,
     series_id |-> payload.series_id, title |-> payload.title,
     old_total |-> payload.old_total, new_total |-> payload.new_total,
     unread |-> payload.unread, message |-> payload.message,
     push_ok |-> payload.push_ok, discord_ok |-> payload.discord_ok,
     notifications_enabled |-> payload.notifications_enabled]>>

\* notifications.py:13-15.
RECURSIVE MaxId(_)
MaxId(items) ==
  IF items = <<>> THEN 0 ELSE Max(Head(items).id, MaxId(Tail(items)))

next_notification_id(items) == MaxId(items) + 1

\* notifications.py:17-22: the record goes to the head of the stored list.
add_notification(items, kind, payload, now) ==
  <<[id |-> next_notification_id(items), kind |-> kind, detected_at |-> now,
     series_id |-> payload.series_id, title |-> payload.title,
     old_total |-> payload.old_total, new_total |-> payload.new_total,
     unread |-> payload.unread, message |-> payload.message,
     push_ok |-> payload.push_ok, discord_ok |-> payload.discord_ok,
     notifications_enabled |-> payload.notifications_enabled]>> \o items

\* Every event is recorded as approved by the policy.
Record_AlwaysEnabled(p) ==
  /\ pc[p] = "record"
  /\ LET it == wl[p][idx[p]]
         l == loc[p]
         payload ==
           [series_id |-> it.id, title |-> it.title,
            old_total |-> l.old_total.v, new_total |-> l.new_total.v,
            unread |-> l.unread,
            message |-> Message(it.title, l.new_total.v, l.unread),
            push_ok |-> l.should_notify /\ l.pushover_result = "ok",
            discord_ok |-> l.should_notify /\ l.discord_result = "ok",
            notifications_enabled |-> TRUE]
     IN history' = add_notification(history, "chapter_update", payload, clock)
  /\ written' = Append(written, Wrote(p, "history", TRUE, history'))
  /\ obs' = [obs EXCEPT ![p][idx[p]].recorded = @ + 1]
  /\ pc' = [pc EXCEPT ![p] = "update"]
  /\ UNCHANGED <<call, loopVars, ret, started, watchlist, envVars, clock, wl, idx, loc,
                  loaded>>

\* poller.py:86-102: the event of the entry, with the outcome flags.
Record(p) ==
  /\ pc[p] = "record"
  /\ LET it == wl[p][idx[p]]
         l == loc[p]
         payload ==
           [series_id |-> it.id, title |-> it.title,
            old_total |-> l.old_total.v, new_total |-> l.new_total.v,
            unread |-> l.unread,
            message |-> Message(it.title, l.new_total.v, l.unread),
            push_ok |-> l.should_notify /\ l.pushover_result = "ok",
            discord_ok |-> l.should_notify /\ l.discord_result = "ok",
            notifications_enabled |-> l.should_notify]
     IN history' = add_notification(history, "chapter_update", payload, clock)
  /\ written' = Append(written, Wrote(p, "history", TRUE, history'))
  /\ obs' = [obs EXCEPT ![p][idx[p]].recorded = @ + 1]
  /\ pc' = [pc EXCEPT ![p] = "update"]
  /\ UNCHANGED <<call, loopVars, ret, started, watchlist, envVars, clock, wl, idx, loc,
                  loaded>>

\* poller.py:104-108: refresh the entry from the record, then the next entry.
Refreshed(it, series, new_total, now) ==
  [it EXCEPT !.title = IF series.title # "" THEN series.title ELSE it.title,
             !.total_chapters = IF new_total.known THEN JInt(new_total.v)
                                ELSE it.total_chapters,
             !.cover = IF pick_cover(series) # "" THEN pick_cover(series) ELSE it.cover,
             !.last_chapter_at = derive_last_chapter_at(series),
             !.last_checked = now]

\* The refreshed entry is written to the store at once (a write per entry).
Update_WritesEach(p) ==
  /\ pc[p] = "update"
  /\ obs' = [obs EXCEPT ![p][idx[p]].updated = TRUE]
  /\ GoNext(p, [wl[p] EXCEPT ![idx[p]] =
                  Refreshed(wl[p][idx[p]], loc[p].series, loc[p].new_total, clock)])
  /\ watchlist' = wl'[p]
  /\ written' = Append(written, Wrote(p, "watchlist", TRUE, wl'[p]))
  /\ UNCHANGED <<call, loopVars, ret, started, history, envVars, clock, loaded>>

Update(p) ==
  /\ pc[p] = "update"
  /\ obs' = [obs EXCEPT ![p][idx[p]].updated = TRUE]
  /\ GoNext(p, [wl[p] EXCEPT ![idx[p]] =
                  Refreshed(wl[p][idx[p]], loc[p].series, loc[p].new_total, clock)])
  /\ UNCHANGED <<call, loopVars, logVars, storeVars, envVars, clock, loaded>>

\* The batch write keeps a stored total that is larger than the one of the
\* pass (it reads the file again and merges).
Save_KeepsNewer(p) ==
  /\ pc[p] = "save"
  /\ watchlist' =
       [i \in DOMAIN wl[p] |->
          IF /\ i \in DOMAIN watchlist
             /\ to_int(watchlist[i].total_chapters).known
             /\ to_int(wl[p][i].total_chapters).known
             /\ to_int(watchlist[i].total_chapters).v > to_int(wl[p][i].total_chapters).v
            THEN [wl[p][i] EXCEPT !.total_chapters = watchlist[i].total_chapters]
            ELSE wl[p][i]]
  /\ written' = Append(written, Wrote(p, "watchlist", TRUE, watchlist'))
  /\ ret' = [ret EXCEPT ![p] = [kind |-> "ok", checked |-> Len(wl[p])]]
  /\ pc' = [pc EXCEPT ![p] = "idle"]
  /\ UNCHANGED <<call, started, history, envVars, clock, wl, idx, loc, obsVars>>

\* The summary counts the refreshed entries only.
Save_CountsUpdated(p) ==
  /\ pc[p] = "save"
  /\ watchlist' = wl[p]
  /\ written' = Append(written, Wrote(p, "watchlist", TRUE, wl[p]))
  /\ ret' = [ret EXCEPT ![p] =
               [kind |-> "ok",
                checked |-> Cardinality({i \in DOMAIN wl[p] : obs[p][i].updated})]]
  /\ pc' = [pc EXCEPT ![p] = "idle"]
  /\ UNCHANGED <<call, started, history, envVars, clock, wl, idx, loc, obsVars>>

\* poller.py:112-113: the batch write; the pass returns {"checked": len(wl)}.
\* The batch write stores the list in reverse order.
Save_Reversed(p) ==
  /\ pc[p] = "save"
  /\ watchlist' = [i \in DOMAIN wl[p] |-> wl[p][Len(wl[p]) + 1 - i]]
  /\ written' = Append(written, Wrote(p, "watchlist", TRUE, watchlist'))
  /\ ret' = [ret EXCEPT ![p] = [kind |-> "ok", checked |-> Len(wl[p])]]
  /\ pc' = [pc EXCEPT ![p] = "idle"]
  /\ UNCHANGED <<call, started, history, envVars, clock, wl, idx, loc, obsVars>>

Save(p) ==
  /\ pc[p] = "save"
  /\ watchlist' = wl[p]
  /\ written' = Append(written, Wrote(p, "watchlist", TRUE, wl[p]))
  /\ ret' = [ret EXCEPT ![p] = [kind |-> "ok", checked |-> Len(wl[p])]]
  /\ pc' = [pc EXCEPT ![p] = "idle"]
  /\ UNCHANGED <<call, started, history, envVars, clock, wl, idx, loc, obsVars>>

\* The end of a call of process_once by a caller other than poll_loop.
SavePass(p) == Save(p) /\ UNCHANGED loopVars

\* One step of the loop body of a pass; one step of a pass in progress that
\* was called by a caller other than poll_loop.
PassBody(p) ==
  \/ FetchFail(p) \/ FetchOk(p) \/ Refetch(p) \/ Diff(p) \/ Pushover(p)
  \/ Discord(p) \/ Record(p) \/ Update(p)

PassStep(p) == PassBody(p) \/ SavePass(p)

(***************************************************************************)
(* The sequential specification: the passes of one task, one after the     *)
(* other, against an upstream that does not change.  The upstream requests *)
(* and the Pushover call can fail; reading and writing the two JSON files   *)
(* succeeds.                                                                *)
(***************************************************************************)
Next ==
  \/ StartPass(Poller)
  \/ FetchFail(Poller)
  \/ FetchOk(Poller)
  \/ Refetch(Poller)
  \/ Diff(Poller)
  \/ Pushover(Poller)
  \/ Discord(Poller)
  \/ Record(Poller)
  \/ Update(Poller)
  \/ SavePass(Poller)

Spec == Init /\ [][Next]_vars

(***************************************************************************)
(* _should_send_notification on its own: every combination of the two      *)
(* preference keys it reads (present or missing) and of the status.         *)
(***************************************************************************)
MaybeFlags == {"absent", "yes", "no"}

InitPolicy ==
  \E e \in MaybeFlags, owr \in MaybeFlags, po \in Flags,
     status \in Statuses \cup {"absent"} :
    /\ InitStores(Item(1, "Old1", JInt(1), 0, "reading", NoPrefs))
    /\ upstream = [i \in Ids |-> Series(i, JNull, "active", 0)]
    /\ down = [i \in Ids |-> 0]
    /\ call = [fn |-> "_should_send_notification",
               arg |-> Item(1, "Old1", JInt(1), 0, status, Prefs(e, po, "yes", owr)),
               done |-> FALSE, ret |-> FALSE]
    /\ task = NoTask

PolicyCall ==
  /\ call.fn = "_should_send_notification"
  /\ ~call.done
  /\ call' = [call EXCEPT !.done = TRUE,
                          !.ret = _should_send_notification(call.arg)]
  /\ UNCHANGED <<storeVars, envVars, clock, passVars, obsVars, logVars, loopVars>>

SpecPolicy == InitPolicy /\ [][PolicyCall]_vars

(***************************************************************************)
(* poll_loop (services/poller.py:115-144) as the task the lifespan creates  *)
(* and cancels, with JSON files whose writes can fail.  The task runs       *)
(* between two awaits without interruption, so a cancellation request       *)
(* arrives only while it is suspended: in a request, a retry delay, a channel *)
(* call or the sleep between passes.                                         *)
(***************************************************************************)
\* path.write_text raises: before it opened the file (the file is kept), or
\* after it truncated it (load_json then answers the default, the empty list).
WriteFailures == {"kept", "truncated"}

\* notifications.py:17-22 called at poller.py:89-102 with a failing
\* save_notifications: the exception reaches the handler at 109-111.
RecordFails(p) ==
  /\ pc[p] = "record"
  /\ \E out \in WriteFailures :
       history' = IF out = "kept" THEN history ELSE <<>>
  /\ written' = Append(written, Wrote(p, "history", FALSE, history'))
  /\ obs' = [obs EXCEPT ![p][idx[p]].raised = TRUE]
  /\ GoNext(p, wl[p])
  /\ UNCHANGED <<call, loopVars, ret, started, watchlist, envVars, clock, loaded>>

\* poller.py:112 with a failing save_watchlist: the exception leaves
\* process_once.
SaveRaises(p) ==
  /\ pc[p] = "save"
  /\ \E out \in WriteFailures :
       watchlist' = IF out = "kept" THEN watchlist ELSE <<>>
  /\ written' = Append(written, Wrote(p, "watchlist", FALSE, watchlist'))
  /\ ret' = [ret EXCEPT ![p] = [kind |-> "raised", checked |-> 0]]
  /\ pc' = [pc EXCEPT ![p] = "idle"]
  /\ UNCHANGED <<call, started, history, envVars, clock, wl, idx, loc, obsVars>>

\* settings.POLL_INTERVAL_SEC of the runs: the poller off (zero, negative),
\* and one minute.
LoopIntervals == {-1, 0, 60}

\* The awaits of process_once.
Awaits == {"fetch", "refetch", "push", "discord"}

\* The task has been created and has not run yet.  Entry 1 has a new
\* chapter upstream and may have been merged into id 3; the requests for
\* id 1 all succeed or all fail, the first request for id 3 may fail; entry
\* 2 has nothing new.  With the poller off two such inputs are enough.
InitLoop ==
  /\ \E d1 \in {0, MaxAttempts}, mw \in {0, 3}, d3 \in {0, 1}, iv \in LoopIntervals :
       /\ mw = 0 => d3 = 0
       /\ d1 # 0 => mw = 0
       /\ iv <= 0 => (d3 = 0 /\ (d1 = 0 => mw = 3))
       /\ InitStores(Item(1, "Old1", JInt(1), 0, "reading", Prefs("yes", "yes", "yes", "yes")))
       /\ upstream = [i \in Ids |->
                        CASE i = 1 -> Series(1, JInt(MaxTotal),
                                             IF mw = 0 THEN "active" ELSE "merged", mw)
                          [] i = 2 -> Series(2, JInt(1), "active", 0)
                          [] OTHER -> Series(3, IF mw = 0 THEN JNull ELSE JInt(MaxTotal),
                                             "active", 0)]
       /\ down = [i \in Ids |-> CASE i = 1 -> d1 [] i = 2 -> 0 [] OTHER -> d3]
       /\ task = [at |-> "new", cancel |-> FALSE, interval |-> iv]
  /\ call = NoCall

\* The loop starts whatever the interval is.
LoopStart_IgnoresInterval ==
  /\ task.at = "new" /\ ~task.cancel
  /\ poll_stats' = NoStats
  /\ task' = [task EXCEPT !.at = "top"]
  /\ UNCHANGED <<call, storeVars, envVars, clock, passVars, obsVars, logVars>>

\* poller.py:116-126: the statistics, and the exit when polling is off.
LoopStart ==
  /\ task.at = "new" /\ ~task.cancel
  /\ poll_stats' = NoStats
  /\ task' = [task EXCEPT !.at = IF task.interval <= 0 THEN "done" ELSE "top"]
  /\ UNCHANGED <<call, storeVars, envVars, clock, passVars, obsVars, logVars>>

\* poller.py:128-130: the loop calls process_once.
LoopPass ==
  /\ task.at = "top"
  /\ Load(Poller)
  /\ task' = [task EXCEPT !.at = "pass"]
  /\ UNCHANGED poll_stats

\* The pass goes on from one await to the next.
Running == task.at = "pass" /\ ~task.cancel

LoopStep ==
  \/ Running /\ FetchFail(Poller)
  \/ Running /\ FetchOk(Poller)
  \/ Running /\ Refetch(Poller)
  \/ Running /\ Diff(Poller)
  \/ Running /\ Pushover(Poller)
  \/ Running /\ Discord(Poller)
  \/ Running /\ Record(Poller)
  \/ Running /\ RecordFails(Poller)
  \/ Running /\ Update(Poller)

\* poller.py:130-131, 137-140: process_once returns; last_ok; the sleep.
LoopPassOk ==
  /\ task.at = "pass" /\ ~task.cancel
  /\ Save(Poller)
  /\ poll_stats' = [poll_stats EXCEPT !.last_ok = clock]
  /\ task' = [task EXCEPT !.at = "sleep"]

\* The exception of the pass ends the loop.
LoopPassRaises_Exits ==
  /\ task.at = "pass" /\ ~task.cancel
  /\ SaveRaises(Poller)
  /\ poll_stats' = [poll_stats EXCEPT !.last_error = clock]
  /\ task' = [task EXCEPT !.at = "done"]

\* poller.py:132-134, 137-140: process_once raises; last_error; the sleep.
LoopPassRaises ==
  /\ task.at = "pass" /\ ~task.cancel
  /\ SaveRaises(Poller)
  /\ poll_stats' = [poll_stats EXCEPT !.last_error = clock]
  /\ task' = [task EXCEPT !.at = "sleep"]

\* poller.py:140: the sleep is over, the loop goes round.
LoopWake ==
  /\ task.at = "sleep" /\ ~task.cancel
  /\ task' = [task EXCEPT !.at = "top"]
  /\ UNCHANGED <<call, storeVars, envVars, clock, passVars, obsVars, logVars, poll_stats>>

\* Task p is not running: it waits at an await, has not started or is over.
\* The poller task is p = Poller when the lifespan created it.
Suspended(p) ==
  IF p = Poller /\ task.at # "off"
    THEN \/ task.at \in {"new", "sleep", "done"}
         \/ task.at = "pass" /\ pc[p] \in Awaits
    ELSE pc[p] \in Awaits \cup {"idle"}

\* main.py:109-112: the shutdown calls poller_task.cancel() while the task
\* is suspended (or before it first ran).
Cancel ==
  /\ ~task.cancel
  /\ task.at # "done" /\ Suspended(Poller)
  /\ task' = [task EXCEPT !.cancel = TRUE]
  /\ UNCHANGED <<call, storeVars, envVars, clock, passVars, obsVars, logVars, poll_stats>>

\* The task resumes with CancelledError at its await.  In the sleep it is
\* caught (poller.py:141-144, break).  Inside process_once it is not an
\* Exception, so neither the retry handler (41), nor the per-entry handler
\* (109), nor the handler of the loop (132) catches it: the pass ends where
\* it is and the task with it.
Cancelled ==
  /\ task.cancel /\ task.at # "done"
  /\ task' = [task EXCEPT !.at = "done"]
  /\ IF task.at = "pass"
       THEN /\ pc' = [pc EXCEPT ![Poller] = "idle"]
            /\ ret' = [ret EXCEPT ![Poller] = [kind |-> "cancelled", checked |-> 0]]
            /\ UNCHANGED <<wl, idx, loc, written, started>>
       ELSE UNCHANGED <<passVars, logVars>>
  /\ UNCHANGED <<call, storeVars, envVars, clock, obsVars, poll_stats>>

\* main.py:478-480 with the poller off: a refresh request runs its pass.
PollerOff == task.interval <= 0

ManualWhileOff ==
  \/ PollerOff /\ StartPass(Manual)
  \/ PollerOff /\ FetchFail(Manual)
  \/ PollerOff /\ FetchOk(Manual)
  \/ PollerOff /\ Refetch(Manual)
  \/ PollerOff /\ Diff(Manual)
  \/ PollerOff /\ Pushover(Manual)
  \/ PollerOff /\ Discord(Manual)
  \/ PollerOff /\ Record(Manual)
  \/ PollerOff /\ Update(Manual)
  \/ PollerOff /\ SavePass(Manual)

NextLoop ==
  \/ LoopStart
  \/ ManualWhileOff
  \/ LoopPass
  \/ LoopStep
  \/ LoopPassOk
  \/ LoopPassRaises
  \/ LoopWake
  \/ Cancel
  \/ Cancelled

SpecLoop == InitLoop /\ [][NextLoop]_vars

(***************************************************************************)
(* The poller task and a request to POST /api/watchlist/refresh             *)
(* (main.py:478-480) on one event loop: each runs from one await to the     *)
(* next while the other is suspended.  One pass of the poller task (it then  *)
(* stays in its sleep) and one request; the upstream publishes chapters in   *)
(* the meantime; the files do not fail.                                      *)
(***************************************************************************)
\* Every task other than p is suspended, so the event loop can run p.
Turn(p) == \A q \in Procs \ {p} : Suspended(q)

InitRace ==
  /\ \E e \in Flags, d1 \in {0, MaxAttempts}, mw \in {0, 3} :
       /\ mw = 3 => (e = "no" /\ d1 = 0)
       /\ InitStores(Item(1, "Old1", JInt(1), 0, "reading", Prefs(e, "yes", "yes", "yes")))
       /\ upstream = [i \in Ids |->
                        CASE i = 1 -> Series(1, JInt(1), IF mw = 0 THEN "active" ELSE "merged", mw)
                          [] i = 2 -> Series(2, JInt(MaxTotal), "active", 0)
                          [] OTHER -> Series(3, IF mw = 0 THEN JNull ELSE JInt(MaxTotal),
                                             "active", 0)]
       /\ down = [i \in Ids |-> IF i = 1 THEN d1 ELSE 0]
  /\ call = NoCall
  /\ task = [at |-> "new", cancel |-> FALSE, interval |-> 60]

\* The upstream publishes a chapter of series 1.
Publish ==
  /\ to_int(upstream[1].total_chapters).v < MaxTotal
  /\ upstream' = [upstream EXCEPT ![1].total_chapters =
                     JInt(to_int(upstream[1].total_chapters).v + 1)]
  /\ UNCHANGED <<call, storeVars, down, clock, passVars, obsVars, logVars, loopVars>>

\* The poller task runs: poll_loop and the pass it called.
SchedRuns ==
  \/ Turn(Poller) /\ LoopStart
  \/ Turn(Poller) /\ LoopPass
  \/ Turn(Poller) /\ task.at = "pass" /\ FetchFail(Poller)
  \/ Turn(Poller) /\ task.at = "pass" /\ FetchOk(Poller)
  \/ Turn(Poller) /\ task.at = "pass" /\ Refetch(Poller)
  \/ Turn(Poller) /\ task.at = "pass" /\ Diff(Poller)
  \/ Turn(Poller) /\ task.at = "pass" /\ Pushover(Poller)
  \/ Turn(Poller) /\ task.at = "pass" /\ Discord(Poller)
  \/ Turn(Poller) /\ task.at = "pass" /\ Record(Poller)
  \/ Turn(Poller) /\ task.at = "pass" /\ Update(Poller)
  \/ Turn(Poller) /\ LoopPassOk

\* The request handler runs: trigger_refresh and the pass it called.
ManualRuns ==
  \/ Turn(Manual) /\ started[Manual] = 0 /\ StartPass(Manual)
  \/ Turn(Manual) /\ FetchFail(Manual)
  \/ Turn(Manual) /\ FetchOk(Manual)
  \/ Turn(Manual) /\ Refetch(Manual)
  \/ Turn(Manual) /\ Diff(Manual)
  \/ Turn(Manual) /\ Pushover(Manual)
  \/ Turn(Manual) /\ Discord(Manual)
  \/ Turn(Manual) /\ Record(Manual)
  \/ Turn(Manual) /\ Update(Manual)
  \/ Turn(Manual) /\ SavePass(Manual)

NextRace ==
  \/ SchedRuns
  \/ ManualRuns
  \/ Publish

SpecRace == InitRace /\ [][NextRace]_vars

(***************************************************************************)
(* The watchlist endpoints that edit an entry (routers/watchlist.py), each  *)
(* a synchronous load, change and save, beside the passes of one task.  The *)
(* endpoints run in the thread pool, so a request can commit wherever the   *)
(* pass is.                                                                  *)
(***************************************************************************)
User == "user"

\* save_json called by a request handler.
UserWrote(store, list) ==
  [by |-> User, pass |-> 0, store |-> store, ok |-> TRUE, list |-> list]

\* `for it in wl: if str(it.get("id")) == str(series_id)`: the position of
\* the first entry with that id, 0 when there is none (the handler answers 404).
RECURSIVE Find(_, _, _)
Find(list, series_id, i) ==
  IF i > Len(list) THEN 0
  ELSE IF list[i].id = series_id THEN i ELSE Find(list, series_id, i + 1)

\* The requests left to a behaviour.
EditsLeft ==
  Cardinality({k \in 1 .. Len(written) : written[k].by = User}) < MaxEdits

\* The handler found the entry at position i, left it as `it`, stamped it
\* and saved the list.
Commit(i, it) ==
  /\ watchlist' = [watchlist EXCEPT ![i] = [it EXCEPT !.last_checked = clock]]
  /\ written' = Append(written, UserWrote("watchlist", watchlist'))
  /\ UNCHANGED <<call, history, envVars, clock, passVars, obsVars, ret, started, loopVars>>

\* ProgressPatch bodies: mark_latest, decrement, last_read, and an empty one.
ProgressBodies ==
  {[k |-> "mark_latest", v |-> 0], [k |-> "decrement", v |-> 0],
   [k |-> "last_read", v |-> MaxTotal], [k |-> "last_read", v |-> -1],
   [k |-> "none", v |-> 0]}

\* routers/watchlist.py:107-130.  An unrecognized body is answered 400 and
\* an unknown id 404, both without a write.
set_progress(series_id, body) ==
  LET i == Find(watchlist, series_id, 1)
      it == watchlist[i]
      total == to_int(it.total_chapters)
      last == OrInt(to_int(JInt(it.last_read)), 0)
  IN /\ EditsLeft
     /\ i # 0
     /\ body.k # "none"
     /\ Commit(i, [it EXCEPT !.last_read =
                     CASE body.k = "mark_latest" -> IF total.known THEN total.v ELSE last
                       [] body.k = "decrement" ->
                            Max(0, last - OrInt(to_int(JInt(body.v)), 1))
                       [] OTHER -> Max(0, body.v)])

\* routers/watchlist.py:133-142.
read_next(series_id) ==
  LET i == Find(watchlist, series_id, 1)
      it == watchlist[i]
  IN /\ EditsLeft
     /\ i # 0
     /\ Commit(i, [it EXCEPT !.last_read = OrInt(to_int(JInt(it.last_read)), 0) + 1])

\* routers/watchlist.py:145-156.
set_status(series_id, status) ==
  LET i == Find(watchlist, series_id, 1)
  IN /\ EditsLeft
     /\ i # 0
     /\ Commit(i, [watchlist[i] EXCEPT !.status = status])

\* NotificationPreferencesPatch bodies: every field optional.
NoPatch == [enabled |-> "absent", pushover |-> "absent", discord |-> "absent",
            only_when_reading |-> "absent"]
PrefPatches ==
  {[NoPatch EXCEPT !.enabled = "no"], [NoPatch EXCEPT !.pushover = "no"],
   [NoPatch EXCEPT !.only_when_reading = "no"]}

\* The fields the body provides are set in every entry of the watchlist.
update_notification_preferences_All(series_id, body) ==
  LET i == Find(watchlist, series_id, 1)
      Patched(old) == [f \in DOMAIN old |-> IF body[f] # "absent" THEN body[f] ELSE old[f]]
  IN /\ EditsLeft
     /\ i # 0
     /\ watchlist' =
          [j \in DOMAIN watchlist |->
             [watchlist[j] EXCEPT !.notifications = Patched(@),
                                  !.last_checked = IF j = i THEN clock ELSE @]]
     /\ written' = Append(written, UserWrote("watchlist", watchlist'))
     /\ UNCHANGED <<call, history, envVars, clock, passVars, obsVars, ret, started, loopVars>>

\* routers/watchlist.py:159-186: only the fields the body provides change.
update_notification_preferences(series_id, body) ==
  LET i == Find(watchlist, series_id, 1)
      old == watchlist[i].notifications
  IN /\ EditsLeft
     /\ i # 0
     /\ Commit(i, [watchlist[i] EXCEPT !.notifications =
                     [f \in DOMAIN old |-> IF body[f] # "absent" THEN body[f] ELSE old[f]]])

\* Entry 1 has a new chapter upstream; entry 2 was merged into id 3, and the
\* first request for it fails.
InitUser ==
  /\ \E e \in Flags :
       /\ InitStores(Item(1, "Old1", JInt(1), 0, "reading", Prefs(e, "yes", "yes", "yes")))
       /\ upstream = [i \in Ids |->
                        CASE i = 1 -> Series(1, JInt(MaxTotal), "active", 0)
                          [] i = 2 -> Series(2, JInt(1), "merged", 3)
                          [] OTHER -> Series(3, JInt(1), "active", 0)]
       /\ down = [i \in Ids |-> IF i = 2 THEN 1 ELSE 0]
  /\ call = NoCall
  /\ task = NoTask

\* The ids the requests name: entry 1 and id 3, which is not watched before
\* a pass has moved entry 2 to it.
EditIds == {1, 3}

NextUser ==
  \/ StartPass(Poller)
  \/ FetchFail(Poller)
  \/ FetchOk(Poller)
  \/ Refetch(Poller)
  \/ Diff(Poller)
  \/ Pushover(Poller)
  \/ Discord(Poller)
  \/ Record(Poller)
  \/ Update(Poller)
  \/ SavePass(Poller)
  \/ \E sid \in EditIds, body \in ProgressBodies : set_progress(sid, body)
  \/ \E sid \in EditIds : read_next(sid)
  \/ \E sid \in EditIds : set_status(sid, "finished")
  \/ \E sid \in EditIds, body \in PrefPatches : update_notification_preferences(sid, body)

SpecUser == InitUser /\ [][NextUser]_vars

(***************************************************************************)
(* The notification endpoints (routers/notify.py) on the history file, one  *)
(* request after the other: the test notification, which adds an event, the *)
(* deletion of one id, and the clearing of the history.                      *)
(***************************************************************************)
\* The requests left to a behaviour.
OpsLeft ==
  Cardinality({k \in 1 .. Len(written) :
                 written[k].by = User /\ written[k].store = "history"}) < MaxOps

\* The payload of notify.py:36; the keys a test event does not have are
\* empty.
TestPayload(push_ok) ==
  [series_id |-> 0, title |-> "MangaNotify test", old_total |-> 0, new_total |-> 0,
   unread |-> 0, message |-> Message("Manual test", 0, 0),
   push_ok |-> push_ok, discord_ok |-> FALSE, notifications_enabled |-> FALSE]

\* notify.py:28-37 with the credentials set: the Pushover call answers, the
\* event is added at the time of the request.
notify_test ==
  /\ OpsLeft
  /\ clock' = clock + 1
  /\ \E push_ok \in BOOLEAN :
       /\ history' = add_notification(history, "test", TestPayload(push_ok), clock')
       /\ call' = [fn |-> "notify_test", arg |-> push_ok, done |-> TRUE,
                   ret |-> Head(history').id]
  /\ written' = Append(written, UserWrote("history", history'))
  /\ UNCHANGED <<watchlist, envVars, passVars, obsVars, ret, started, loopVars>>

\* The request deletes every event up to the id.
delete_notification_UpTo(nid) ==
  /\ OpsLeft
  /\ history' = SelectSeq(history, LAMBDA x : x.id > nid)
  /\ call' = [fn |-> "delete_notification", arg |-> nid, done |-> TRUE,
              ret |-> Len(history) - Len(history')]
  /\ written' = Append(written, UserWrote("history", history'))
  /\ UNCHANGED <<watchlist, envVars, clock, passVars, obsVars, ret, started, loopVars>>

\* notify.py:44-50: the events with another id are kept and saved; the
\* answer is the number of events removed.
delete_notification(nid) ==
  /\ OpsLeft
  /\ history' = SelectSeq(history, LAMBDA x : x.id # nid)
  /\ call' = [fn |-> "delete_notification", arg |-> nid, done |-> TRUE,
              ret |-> Len(history) - Len(history')]
  /\ written' = Append(written, UserWrote("history", history'))
  /\ UNCHANGED <<watchlist, envVars, clock, passVars, obsVars, ret, started, loopVars>>

\* notify.py:52-54.
clear_notifications ==
  /\ OpsLeft
  /\ history' = <<>>
  /\ call' = [fn |-> "clear_notifications", arg |-> 0, done |-> TRUE, ret |-> 0]
  /\ written' = Append(written, UserWrote("history", history'))
  /\ UNCHANGED <<watchlist, envVars, clock, passVars, obsVars, ret, started, loopVars>>

InitHistory ==
  /\ InitStores(Item(1, "Old1", JInt(1), 0, "reading", NoPrefs))
  /\ upstream = [i \in Ids |-> Series(i, JNull, "active", 0)]
  /\ down = [i \in Ids |-> 0]
  /\ call = NoCall
  /\ task = NoTask

NextHistory ==
  \/ notify_test
  \/ \E nid \in 1 .. MaxOps : delete_notification(nid)
  \/ clear_notifications

SpecHistory == InitHistory /\ [][NextHistory]_vars

(***************************************************************************)
(* The endpoints that change which series are watched (add_watch,           *)
(* import_watchlist, remove) and process_once, one operation after the      *)
(* other: a request is served while no pass is running.                     *)
(***************************************************************************)
\* NotificationPreferences(): every field defaults to True.
AllOn == Prefs("yes", "yes", "yes", "yes")

\* The stored form of an optional integer.
ToJson(o) == IF o.known THEN JInt(o.v) ELSE JNull

\* Python's `a or b` on two optional integers.
OrOpt(a, b) == IF a.known /\ a.v # 0 THEN a ELSE b

\* routers/watchlist.py:54-64: one request for the id and, when the record is
\* merged, one for the id it was merged with; `sid` is reassigned before the
\* second request, and an exception leaves `series` as it was.
Hydrated(sid) ==
  IF FetchRaises(sid, 0) THEN [sid |-> sid, series |-> NoSeries]
  ELSE IF ~IsMerged(upstream[sid]) THEN [sid |-> sid, series |-> upstream[sid]]
  ELSE IF FetchRaises(upstream[sid].merged_with, 0)
         THEN [sid |-> upstream[sid].merged_with, series |-> upstream[sid]]
  ELSE [sid |-> upstream[sid].merged_with,
        series |-> upstream[upstream[sid].merged_with]]

\* WatchlistAdd bodies: the id; title, total_chapters, last_read, status
\* and notifications are left out.
AddBodies == [id : {1, 3}, total_chapters : {JNull}]

\* routers/watchlist.py:46-95.  An id that is already watched is answered
\* "Already in watchlist" without a write.
add_watch(item) ==
  /\ EditsLeft
  /\ Find(watchlist, item.id, 1) = 0
  /\ LET h == Hydrated(item.id)
         total == OrOpt(to_int(item.total_chapters), to_int(h.series.total_chapters))
         record == [id |-> h.sid, title |-> h.series.title,
                    total_chapters |-> ToJson(total), last_read |-> 0,
                    status |-> "reading",
                    cover |-> IF h.series = NoSeries THEN "" ELSE pick_cover(h.series),
                    last_chapter_at |-> IF h.series = NoSeries THEN ""
                                        ELSE derive_last_chapter_at(h.series),
                    last_checked |-> clock, notifications |-> AllOn]
     IN watchlist' = Append(watchlist, record)
  /\ written' = Append(written, UserWrote("watchlist", watchlist'))
  /\ UNCHANGED <<call, history, envVars, clock, passVars, obsVars, ret, started, loopVars>>

\* routers/watchlist.py:98-104.
remove(series_id) ==
  /\ EditsLeft
  /\ watchlist' = SelectSeq(watchlist, LAMBDA x : x.id # series_id)
  /\ written' = Append(written, UserWrote("watchlist", watchlist'))
  /\ UNCHANGED <<call, history, envVars, clock, passVars, obsVars, ret, started, loopVars>>

\* routers/watchlist.py:226-265: an item without an id is passed over, an
\* item whose id is in the list (as loaded, or as extended by the items
\* before it) is skipped, every other item is appended.
RECURSIVE Imported(_, _, _)
Imported(list, import_data, now) ==
  IF import_data = <<>> THEN list
  ELSE LET item == Head(import_data) IN
       IF item.id = 0 \/ Find(list, item.id, 1) # 0
         THEN Imported(list, Tail(import_data), now)
         ELSE Imported(
                Append(list,
                       [Item(item.id, "", JInt(OrInt(to_int(item.total_chapters), 0)),
                             0, "reading", AllOn) EXCEPT !.last_checked = now]),
                Tail(import_data), now)

\* Import bodies: arrays of items that carry an id (0: none) and a total.
ImportItem(id) == [id |-> id, total_chapters |-> JNull]
ImportBodies ==
  {<<ImportItem(3), ImportItem(3)>>, <<ImportItem(0), ImportItem(2)>>}

\* routers/watchlist.py:211-275.
import_watchlist(import_data) ==
  /\ EditsLeft
  /\ watchlist' = Imported(watchlist, import_data, clock)
  /\ written' = Append(written, UserWrote("watchlist", watchlist'))
  /\ UNCHANGED <<call, history, envVars, clock, passVars, obsVars, ret, started, loopVars>>

\* Entry 1 may have been merged upstream into the watched id 2, and id 3
\* too.
InitIds ==
  \E mw1 \in {0, 2}, mw3 \in {0, 2}, d3 \in {0, 1} :
    /\ InitStores(Item(1, "Old1", JInt(1), 0, "reading", NoPrefs))
    /\ upstream = [i \in Ids |->
                     CASE i = 1 -> Series(1, JInt(1), IF mw1 = 0 THEN "active" ELSE "merged", mw1)
                       [] i = 2 -> Series(2, JInt(MaxTotal), "active", 0)
                       [] OTHER -> Series(3, JInt(1), IF mw3 = 0 THEN "active" ELSE "merged", mw3)]
    /\ down = [i \in Ids |-> IF i = 3 THEN d3 ELSE 0]
    /\ call = NoCall
    /\ task = NoTask

\* No pass is running.
Quiet == pc[Poller] = "idle"

NextIds ==
  \/ StartPass(Poller)
  \/ FetchFail(Poller)
  \/ FetchOk(Poller)
  \/ Refetch(Poller)
  \/ Diff(Poller)
  \/ Pushover(Poller)
  \/ Discord(Poller)
  \/ Record(Poller)
  \/ Update(Poller)
  \/ SavePass(Poller)
  \/ Quiet /\ \E item \in AddBodies : add_watch(item)
  \/ Quiet /\ \E body \in ImportBodies : import_watchlist(body)
  \/ Quiet /\ \E sid \in {1, 2} : remove(sid)

SpecIds == InitIds /\ [][NextIds]_vars

(***************************************************************************)
(* The same endpoints while a pass is in flight: a request is served at any *)
(* point between the load of the pass (poller.py:29) and its batch write    *)
(* (poller.py:112).                                                         *)
(***************************************************************************)
NextMembers ==
  \/ StartPass(Poller)
  \/ FetchFail(Poller)
  \/ FetchOk(Poller)
  \/ Refetch(Poller)
  \/ Diff(Poller)
  \/ Pushover(Poller)
  \/ Discord(Poller)
  \/ Record(Poller)
  \/ Update(Poller)
  \/ SavePass(Poller)
  \/ \E item \in AddBodies : add_watch(item)
  \/ \E body \in ImportBodies : import_watchlist(body)
  \/ \E sid \in {1, 2} : remove(sid)

SpecMembers == InitUser /\ [][NextMembers]_vars

(***************************************************************************)
(* The passes of one task over a list with an entry that has no id, where   *)
(* the requests for an entry fail any number of times and the entry may     *)
(* have been merged.  Every request and every channel call returns or       *)
(* raises, so a pass in progress takes its next step.                       *)
(***************************************************************************)
\* An entry without an id (`it.get("id")` is None or 0).
NoIdEntry == Item(0, "NoId", JInt(1), 0, "reading", NoPrefs)

InitFetches ==
  \E d1 \in 0 .. MaxAttempts, mw \in {0, 3}, d3 \in {0, 1} :
    /\ mw = 0 => d3 = 0
    /\ watchlist = <<Item(1, "Old1", JInt(1), 0, "reading", NoPrefs), NoIdEntry, Entry2>>
    /\ history = <<>>
    /\ clock = 0
    /\ pc = [p \in Procs |-> "idle"]
    /\ wl = [p \in Procs |-> <<>>]
    /\ idx = [p \in Procs |-> 0]
    /\ loc = [p \in Procs |-> LocInit]
    /\ loaded = [p \in Procs |-> <<>>]
    /\ obs = [p \in Procs |-> <<>>]
    /\ ret = [p \in Procs |-> NoRet]
    /\ written = <<>>
    /\ started = [p \in Procs |-> 0]
    /\ poll_stats = NoStats
    /\ upstream = [i \in Ids |->
                     CASE i = 1 -> Series(1, JInt(MaxTotal), IF mw = 0 THEN "active" ELSE "merged", mw)
                       [] i = 2 -> Series(2, JInt(1), "active", 0)
                       [] OTHER -> Series(3, JInt(MaxTotal), "active", 0)]
    /\ down = [i \in Ids |-> CASE i = 1 -> d1 [] i = 2 -> 0 [] OTHER -> d3]
    /\ call = NoCall
    /\ task = NoTask

NextFetches ==
  \/ StartPass(Poller)
  \/ FetchFail(Poller)
  \/ FetchOk(Poller)
  \/ Refetch(Poller)
  \/ Diff(Poller)
  \/ Pushover(Poller)
  \/ Discord(Poller)
  \/ Record(Poller)
  \/ Update(Poller)
  \/ SavePass(Poller)

SpecFetches == InitFetches /\ [][NextFetches]_vars /\ WF_vars(PassStep(Poller))

(***************************************************************************)
(* Preference updates on a watchlist that add_watch extends, one request    *)
(* after the other.                                                         *)
(***************************************************************************)
NextPrefs ==
  \/ \E item \in AddBodies : add_watch(item)
  \/ \E sid \in Ids, body \in PrefPatches : update_notification_preferences(sid, body)

SpecPrefs == InitIds /\ [][NextPrefs]_vars

(***************************************************************************)
(* The progress endpoints (set_progress, read_next) and the listing         *)
(* (get_watchlist), one request after the other.                            *)
(***************************************************************************)
\* ProgressPatch bodies with every decrement from 0 to MaxTotal.
DecrementBodies == {[k |-> "decrement", v |-> d] : d \in 0 .. MaxTotal}

\* routers/watchlist.py:23-43: the records of the listing, with the unread
\* count; `or 0` makes an unknown total and an unknown last_read 0.
get_watchlist(list) ==
  [i \in DOMAIN list |->
     LET total == OrInt(to_int(list[i].total_chapters), 0)
         last == OrInt(to_int(JInt(list[i].last_read)), 0)
     IN [id |-> list[i].id, total_chapters |-> total, last_read |-> last,
         unread |-> Max(total - last, 0), is_behind |-> Max(total - last, 0) > 0]]

\* Entry 1 was added with a total_chapters that is a count, is missing, or
\* is negative (WatchlistAdd takes any integer, routers/watchlist.py:66),
\* and has been read up to chapter 1 or not at all.
InitProgress ==
  /\ \E st \in {JInt(MaxTotal), JNull, JInt(-1)}, lr \in {0, 1} :
       InitStores(Item(1, "Old1", st, lr, "reading", AllOn))
  /\ upstream = [i \in Ids |-> Series(i, JInt(MaxTotal), "active", 0)]
  /\ down = [i \in Ids |-> 0]
  /\ call = NoCall
  /\ task = NoTask

NextProgress ==
  \/ \E sid \in Ids, body \in ProgressBodies \cup DecrementBodies : set_progress(sid, body)
  \/ \E sid \in Ids : read_next(sid)

SpecProgress == InitProgress /\ [][NextProgress]_vars

(***************************************************************************)
(* The sleep of poll_loop on its own, in milliseconds.  The draw of         *)
(* random.uniform(-0.1, 0.1) is a number of thousandths u, so the jitter    *)
(* u/1000 * base_interval seconds is u * base_interval milliseconds.        *)
(***************************************************************************)
\* The draws of random.uniform(-0.1, 0.1), in thousandths.
JitterDraws == -100 .. 100

\* settings.POLL_INTERVAL_SEC (an int) of the runs that poll: the smallest
\* intervals, a minute, and the default.
SleepIntervals == (1 .. MaxInterval) \cup {60, 1800}

\* The sleep has no floor.
sleep_for_NoFloor(base_interval, u) == 1000 * base_interval + u * base_interval

\* poller.py:137-138: jitter = random.uniform(-0.1, 0.1) * base_interval;
\* sleep_for = max(1.0, base_interval + jitter).
sleep_for(base_interval, u) == Max(1000, 1000 * base_interval + u * base_interval)

InitSleep ==
  \E base \in SleepIntervals, u \in JitterDraws :
    /\ InitStores(Item(1, "Old1", JInt(1), 0, "reading", NoPrefs))
    /\ upstream = [i \in Ids |-> Series(i, JNull, "active", 0)]
    /\ down = [i \in Ids |-> 0]
    /\ call = [fn |-> "sleep_for", arg |-> [base_interval |-> base, u |-> u],
               done |-> FALSE, ret |-> 0]
    /\ task = [at |-> "sleep", cancel |-> FALSE, interval |-> base]

SleepCall ==
  /\ call.fn = "sleep_for"
  /\ ~call.done
  /\ call' = [call EXCEPT !.done = TRUE,
                          !.ret = sleep_for(call.arg.base_interval, call.arg.u)]
  /\ UNCHANGED <<storeVars, envVars, clock, passVars, obsVars, logVars, loopVars>>

SpecSleep == InitSleep /\ [][SleepCall]_vars

(***************************************************************************)
(* A crash of the process inside save_watchlist.  save_json writes with     *)
(* Path.write_text, which opens the file for writing (the file is truncated *)
(* at that point) and then writes the text: the process can die before the  *)
(* open, between the open and the end of the write, or after it.  load_json *)
(* answers an empty or cut-off file with its default, the empty list.       *)
(***************************************************************************)
\* What the crash leaves in the file: the old text, the new text, or a
\* truncated file.
CrashLeaves == {"old", "new", "cut"}

\* poller.py:112, json_store.py:11-15 and 5-9: the process dies in
\* save_watchlist and is started again with nothing but the files.
Crash(p) ==
  /\ pc[p] = "save"
  /\ call.fn # "crash"
  /\ \E left \in CrashLeaves :
       watchlist' = CASE left = "old" -> watchlist
                      [] left = "new" -> wl[p]
                      [] OTHER -> <<>>
  /\ written' = Append(written, Wrote(p, "watchlist", FALSE, watchlist'))
  /\ call' = [fn |-> "crash", old |-> watchlist, new |-> wl[p], at |-> Len(written')]
  /\ pc' = [q \in Procs |-> "idle"]
  /\ wl' = [q \in Procs |-> <<>>]
  /\ idx' = [q \in Procs |-> 0]
  /\ loc' = [q \in Procs |-> LocInit]
  /\ UNCHANGED <<history, envVars, clock, obsVars, ret, started, loopVars>>

\* Entry 1 has a new chapter upstream or not, the first request for it may
\* fail, and it may have been merged into id 3.
InitCrash ==
  \E t1 \in {JInt(1), JInt(MaxTotal)}, d1 \in {0, 1}, mw \in {0, 3} :
    /\ InitStores(Item(1, "Old1", JInt(1), 0, "reading", NoPrefs))
    /\ upstream = [i \in Ids |->
                     CASE i = 1 -> Series(1, t1, IF mw = 0 THEN "active" ELSE "merged", mw)
                       [] i = 2 -> Series(2, JInt(MaxTotal), "active", 0)
                       [] OTHER -> Series(3, JInt(MaxTotal), "active", 0)]
    /\ down = [i \in Ids |-> IF i = 1 THEN d1 ELSE 0]
    /\ call = NoCall
    /\ task = NoTask

NextCrash ==
  \/ StartPass(Poller)
  \/ FetchFail(Poller)
  \/ FetchOk(Poller)
  \/ Refetch(Poller)
  \/ Diff(Poller)
  \/ Pushover(Poller)
  \/ Discord(Poller)
  \/ Record(Poller)
  \/ Update(Poller)
  \/ SavePass(Poller)
  \/ Crash(Poller)

SpecCrash == InitCrash /\ [][NextCrash]_vars

(***************************************************************************)
(* Passes over records whose total_chapters is missing, empty, text,       *)
(* negative, zero or a count.                                               *)
(***************************************************************************)
\* The total_chapters values of the record of entry 1.
OddTotals == {JNull, JEmpty, JText, JInt(-1), JInt(0), JInt(MaxTotal)}

InitTotals ==
  \E st \in StoredTotals, t1 \in OddTotals, d1 \in {0, 1}, mw \in {0, 3} :
    /\ InitStores(Item(1, "Old1", st, 0, "reading", NoPrefs))
    /\ upstream = [i \in Ids |->
                     CASE i = 1 -> Series(1, t1, IF mw = 0 THEN "active" ELSE "merged", mw)
                       [] i = 2 -> Series(2, JInt(MaxTotal), "active", 0)
                       [] OTHER -> Series(3, t1, "active", 0)]
    /\ down = [i \in Ids |-> IF i = 1 THEN d1 ELSE 0]
    /\ call = NoCall
    /\ task = NoTask

NextTotals ==
  \/ StartPass(Poller)
  \/ FetchFail(Poller)
  \/ FetchOk(Poller)
  \/ Refetch(Poller)
  \/ Diff(Poller)
  \/ Pushover(Poller)
  \/ Discord(Poller)
  \/ Record(Poller)
  \/ Update(Poller)
  \/ SavePass(Poller)

SpecTotals == InitTotals /\ [][NextTotals]_vars

(***************************************************************************)
(* What a pass did, read off the stores and the record of the pass.        *)
(***************************************************************************)
\* The task is between passes and has finished at least one.
PassOver(p) == pc[p] = "idle" /\ clock >= 1

\* The loop body is past entry i (the entry was handled or skipped).
Handled(p, i) == i \in DOMAIN wl[p] /\ (i < idx[p] \/ pc[p] \in {"save", "idle"})

\* The chapter_update events of the current pass for entry i.
EventsFor(p, i) ==
  {k \in 1 .. Len(history) :
     /\ history[k].kind = "chapter_update"
     /\ history[k].detected_at = clock
     /\ history[k].series_id = wl[p][i].id}

\* The total the pass fetched for entry i and the total it had stored.
FetchedTotal(p, i) == to_int(obs[p][i].series.total_chapters)
StoredTotal(p, i) == to_int(loaded[p][i].total_chapters)

\* Progress for entry i: a record was fetched, both totals are known and
\* the fetched one is larger.
ProgressSeen(p, i) ==
  /\ obs[p][i].fetched
  /\ FetchedTotal(p, i).known /\ StoredTotal(p, i).known
  /\ FetchedTotal(p, i).v > StoredTotal(p, i).v

\* C1. Monotonic trigger: after a pass, an entry has a chapter_update event
\* of that pass if and only if its stored and its fetched total are both
\* known and the fetched one is larger.
C1_MonotonicTrigger ==
  PassOver(Poller) =>
    \A i \in DOMAIN loaded[Poller] :
      (EventsFor(Poller, i) # {}) <=> ProgressSeen(Poller, i)

\* C2. The stored total never regresses: no step replaces a known
\* total_chapters of a watchlist entry by a smaller or an unknown one.
C2_TotalNeverRegresses ==
  [][\A i \in DOMAIN watchlist :
       (i \in DOMAIN watchlist' /\ to_int(watchlist[i].total_chapters).known) =>
         /\ to_int(watchlist'[i].total_chapters).known
         /\ to_int(watchlist'[i].total_chapters).v >= to_int(watchlist[i].total_chapters).v]_vars

\* C3. Idempotence: a second pass against the same upstream answers records
\* no event and leaves every total_chapters as the first pass left it.
C3_Idempotent ==
  (PassOver(Poller) /\ clock >= 2) =>
    /\ \A k \in 1 .. Len(history) : history[k].detected_at # clock
    /\ \A i \in DOMAIN watchlist :
         watchlist[i].total_chapters = loaded[Poller][i].total_chapters

\* Entry i of the pass had all its requests fail: three calls, no record.
FailedAll(p, i) ==
  /\ Handled(p, i)
  /\ obs[p][i].fetches = MaxAttempts
  /\ obs[p][i].refetches = 0
  /\ ~obs[p][i].fetched

\* Entry i as the pass leaves it after a refresh from the record it fetched.
RefreshedEntry(p, i) ==
  Refreshed([loaded[p][i] EXCEPT !.id = wl[p][i].id], obs[p][i].series,
            FetchedTotal(p, i), clock)

\* C4. Fault isolation: when every request for one entry failed, every
\* other entry the loop has passed was still requested, and unless its own
\* processing was skipped it was diffed (an event exactly when it made
\* progress) and refreshed; the pass ends in the batch write of that list.
C4_FaultIsolation ==
  /\ \A i \in DOMAIN wl[Poller] : \A j \in DOMAIN wl[Poller] :
       (i # j /\ FailedAll(Poller, i) /\ Handled(Poller, j)) =>
         /\ obs[Poller][j].fetches >= 1
         /\ (obs[Poller][j].fetched /\ ~obs[Poller][j].raised) =>
              /\ wl[Poller][j] = RefreshedEntry(Poller, j)
              /\ (EventsFor(Poller, j) # {}) <=> ProgressSeen(Poller, j)
  /\ (\E i \in DOMAIN wl[Poller] : FailedAll(Poller, i)) =>
       /\ pc[Poller] # "idle" => ENABLED Next
       /\ pc[Poller] = "idle" => watchlist = wl[Poller]

\* Entry 1 failed three times and entry 2 was refreshed to the new total,
\* with its event, in the stored list.
W4_FailedThenRefreshed ==
  /\ PassOver(Poller)
  /\ FailedAll(Poller, 1)
  /\ watchlist[1] = loaded[Poller][1]
  /\ watchlist[2].total_chapters = JInt(MaxTotal)
  /\ watchlist[2].last_checked = clock
  /\ EventsFor(Poller, 2) # {}

\* C5. Retry bound: an entry (whose record is not a merged one) whose fetch
\* fails twice and then succeeds gets exactly three requests and is then
\* refreshed; an entry whose fetch always fails gets exactly three requests
\* and keeps every field.
C5_RetryBound ==
  \A i \in DOMAIN wl[Poller] :
    (Handled(Poller, i) /\ ~IsMerged(upstream[loaded[Poller][i].id])) =>
      /\ down[loaded[Poller][i].id] = 2 =>
           /\ obs[Poller][i].fetches = 3
           /\ wl[Poller][i].last_checked = clock
      /\ down[loaded[Poller][i].id] >= MaxAttempts =>
           /\ obs[Poller][i].fetches = 3
           /\ wl[Poller][i] = loaded[Poller][i]

\* The policy inputs of entry i as the pass loaded them.
EnabledPref(p, i) == GetFlag(loaded[p][i].notifications.enabled, TRUE)
OnlyWhenReading(p, i) == GetFlag(loaded[p][i].notifications.only_when_reading, TRUE)
StatusOf(p, i) ==
  IF loaded[p][i].status = "absent" THEN "reading" ELSE loaded[p][i].status

\* Entry i has exactly one event of this pass, recorded with
\* notifications_enabled = FALSE and both outcome flags false.
OneSuppressedEvent(p, i) ==
  /\ Cardinality(EventsFor(p, i)) = 1
  /\ \A k \in EventsFor(p, i) :
       /\ ~history[k].notifications_enabled
       /\ ~history[k].push_ok /\ ~history[k].discord_ok

C7_StatusGating ==
  \A i \in DOMAIN wl[Poller] :
    (OnlyWhenReading(Poller, i) /\ StatusOf(Poller, i) \notin {"reading", "releasing"}) =>
      /\ obs[Poller][i].pushCalls = 0
      /\ obs[Poller][i].discCalls = 0
      /\ (Handled(Poller, i) /\ ProgressSeen(Poller, i)) =>
           /\ OneSuppressedEvent(Poller, i)
           /\ wl[Poller][i].total_chapters = JInt(FetchedTotal(Poller, i).v)
           /\ PassOver(Poller) =>
                watchlist[i].total_chapters = JInt(FetchedTotal(Poller, i).v)

\* A finished pass in which an enabled but finished entry, fetched at the
\* third attempt, advanced to the new total with a suppressed event.
W7_FinishedAfterRetries ==
  /\ PassOver(Poller)
  /\ EnabledPref(Poller, 1) /\ OnlyWhenReading(Poller, 1)
  /\ StatusOf(Poller, 1) = "finished"
  /\ obs[Poller][1].fetches = 3
  /\ ProgressSeen(Poller, 1)
  /\ OneSuppressedEvent(Poller, 1)
  /\ watchlist[1].total_chapters = JInt(MaxTotal)

C9_ChannelIndependence ==
  \A i \in DOMAIN wl[Poller] :
    (/\ Handled(Poller, i)
     /\ obs[Poller][i].pushCalls >= 1
     /\ GetFlag(loaded[Poller][i].notifications.discord, TRUE)) =>
      /\ obs[Poller][i].discCalls = 1
      /\ Cardinality(EventsFor(Poller, i)) = 1

\* C10. Record exactly once: once the loop is past an entry for which
\* progress was detected, add_notification was called exactly once for it.
C10_RecordedOnce ==
  \A i \in DOMAIN wl[Poller] :
    (Handled(Poller, i) /\ ProgressSeen(Poller, i)) => obs[Poller][i].recorded = 1

\* The first fetch of entry i answered with a merged record and the pass
\* asked for the merge target; the target it was sent to.
Redirected(p, i) == obs[p][i].refetches >= 1
Target(p, i) == upstream[loaded[p][i].id].merged_with

\* C11. Redirect failure keeps the original id: when the first fetch of an
\* entry reports a merge and the request for the target fails, the entry is
\* skipped and keeps the id it was loaded with, in the list of the pass and in
\* the list the pass writes.
C11_RedirectFailureKeepsId ==
  \A i \in DOMAIN wl[Poller] :
    (Handled(Poller, i) /\ Redirected(Poller, i) /\ ~obs[Poller][i].fetched) =>
      /\ ~obs[Poller][i].updated
      /\ wl[Poller][i].id = loaded[Poller][i].id
      /\ PassOver(Poller) => watchlist[i].id = loaded[Poller][i].id

\* C12. Redirect success: when the first fetch reports a merge to T and the
\* request for T succeeds, T was requested exactly once, the entry has id T in
\* the list of the pass and in the list the pass writes, and the events of the
\* pass for the entry are at most one, under series_id T and none under the
\* old id, with the total of T against the total the entry had stored.
C12_RedirectSuccess ==
  \A i \in DOMAIN wl[Poller] :
    (Handled(Poller, i) /\ Redirected(Poller, i) /\ obs[Poller][i].fetched) =>
      /\ obs[Poller][i].refetches = 1
      /\ wl[Poller][i].id = Target(Poller, i)
      /\ PassOver(Poller) => watchlist[i].id = Target(Poller, i)
      /\ Cardinality(EventsFor(Poller, i)) <= 1
      /\ \A k \in 1 .. Len(history) :
           history[k].detected_at = clock => history[k].series_id # loaded[Poller][i].id
      /\ \A k \in EventsFor(Poller, i) :
           /\ Progress(to_int(upstream[Target(Poller, i)].total_chapters),
                       StoredTotal(Poller, i))
           /\ history[k].new_total = to_int(upstream[Target(Poller, i)].total_chapters).v
           /\ history[k].old_total = StoredTotal(Poller, i).v

\* A finished pass in which entry 1 was merged into 3, is stored under id 3
\* with the total of 3, and has its one event under series_id 3.
W12_MergedWithEvent ==
  /\ PassOver(Poller)
  /\ Redirected(Poller, 1) /\ obs[Poller][1].fetched
  /\ loaded[Poller][1].id = 1
  /\ watchlist[1].id = 3
  /\ watchlist[1].total_chapters = JInt(MaxTotal)
  /\ Cardinality(EventsFor(Poller, 1)) = 1
  /\ \A k \in EventsFor(Poller, 1) : history[k].series_id = 3

\* C13. A skipped entry is untouched: when all requests for an entry failed
\* (a not-found answer fails like any other), the entry keeps every field it
\* was loaded with, in the list of the pass and in the list the pass writes,
\* and no event is recorded for it.
C13_SkippedUntouched ==
  \A i \in DOMAIN wl[Poller] :
    FailedAll(Poller, i) =>
      /\ wl[Poller][i] = loaded[Poller][i]
      /\ PassOver(Poller) => watchlist[i] = loaded[Poller][i]
      /\ obs[Poller][i].recorded = 0
      /\ EventsFor(Poller, i) = {}

\* A finished pass in which both entries failed three times: the stored list
\* is the loaded one and the history is empty.
W13_AllSkipped ==
  /\ PassOver(Poller)
  /\ FailedAll(Poller, 1) /\ FailedAll(Poller, 2)
  /\ watchlist = loaded[Poller]
  /\ history = <<>>

\* The call of process_once by p has returned or raised.
Returned(p) == pc[p] = "idle" /\ started[p] > 0

\* The calls of save_json by the current pass of p on one file.
WritesOf(p, store) ==
  {k \in 1 .. Len(written) :
     /\ written[k].by = p
     /\ written[k].pass = started[p]
     /\ written[k].store = store}

C15_UpdateUnconditional ==
  \A i \in DOMAIN wl[Poller] :
    (Handled(Poller, i) /\ obs[Poller][i].fetched) =>
      /\ obs[Poller][i].updated
      /\ wl[Poller][i] = RefreshedEntry(Poller, i)
      /\ PassOver(Poller) => watchlist[i] = RefreshedEntry(Poller, i)

\* C16. Single batch write: while a pass is in progress it has not written
\* the watchlist and the stored list is the one it loaded; when it has
\* returned it has written the watchlist exactly once, after the loop went
\* past the last entry, and what it wrote is its whole list.
C16_SingleBatchWrite ==
  /\ pc[Poller] # "idle" =>
       /\ WritesOf(Poller, "watchlist") = {}
       /\ watchlist = loaded[Poller]
  /\ Returned(Poller) =>
       /\ Cardinality(WritesOf(Poller, "watchlist")) = 1
       /\ idx[Poller] > Len(wl[Poller])
       /\ \A k \in WritesOf(Poller, "watchlist") :
            /\ k = Len(written)
            /\ written[k].list = wl[Poller]
            /\ watchlist = wl[Poller]

\* A pass that refreshed both entries and recorded an event for each has
\* returned: the history was written twice and then the watchlist once.
W16_TwoUpdatesOneWrite ==
  /\ Returned(Poller)
  /\ obs[Poller][1].updated /\ obs[Poller][2].updated
  /\ Cardinality(WritesOf(Poller, "history")) = 2
  /\ Cardinality(WritesOf(Poller, "watchlist")) = 1
  /\ watchlist # loaded[Poller]

\* C17. A persistence failure is pass-level: once a write of the watchlist
\* or of the history by the scheduled pass has failed, the pass is over with
\* an exception, poll_stats.last_error is set at that time, and the stored
\* watchlist is the one the pass loaded.
C17_PersistenceFailureFatal ==
  \A k \in WritesOf(Poller, "watchlist") \cup WritesOf(Poller, "history") :
    ~written[k].ok =>
      /\ pc[Poller] = "idle"
      /\ ret[Poller].kind = "raised"
      /\ poll_stats.last_error = clock
      /\ watchlist = loaded[Poller]

\* C18. Cancellation lets a running pass finish: a pass the poller task
\* started has, once the task is over, gone past its last entry and made its
\* batch write; and no pass is loaded after the cancellation request.
C18_CancelLetsPassFinish ==
  /\ (task.at = "done" /\ started[Poller] > 0) =>
       /\ ret[Poller].kind # "cancelled"
       /\ idx[Poller] > Len(wl[Poller])
       /\ WritesOf(Poller, "watchlist") # {}
  /\ (task.cancel /\ task.at # "pass") => pc[Poller] = "idle"

\* C19. One pass at a time: the pass of the poller task and a pass of the
\* manual trigger are never in progress together.
C19_OnePassAtATime ==
  ~(pc[Poller] # "idle" /\ pc[Manual] # "idle")

\* The current pass of p made its batch write after the one of q made its.
WroteAfter(p, q) ==
  \E k \in WritesOf(p, "watchlist") : \E j \in WritesOf(q, "watchlist") : j < k

\* C20. Scheduler/manual race: when two passes have returned of which p
\* loaded the list before q and wrote it after q, the stored list is the list
\* of p alone: every total is the one p loaded, or the one p fetched for an
\* entry it refreshed, whatever q had written.
C20_RaceOverwrites ==
  \A p \in Procs : \A q \in Procs \ {p} :
    (/\ Returned(p) /\ Returned(q)
     /\ started[p] < started[q]
     /\ WroteAfter(p, q)) =>
      /\ watchlist = wl[p]
      /\ \A i \in DOMAIN watchlist :
           watchlist[i].total_chapters =
             IF obs[p][i].updated /\ FetchedTotal(p, i).known
               THEN JInt(FetchedTotal(p, i).v)
               ELSE loaded[p][i].total_chapters

\* The pass of the poller task loaded the list first and wrote it last; the
\* manual pass in between had stored the new total of entry 1, and the stored
\* total is the old one again.
W20_StoredTotalReverted ==
  /\ Returned(Poller) /\ Returned(Manual)
  /\ started[Poller] < started[Manual]
  /\ WroteAfter(Poller, Manual)
  /\ \A j \in WritesOf(Manual, "watchlist") :
       written[j].list[1].total_chapters = JInt(MaxTotal)
  /\ watchlist[1].total_chapters = JInt(1)

\* C21. The engine is read-only on user fields: the batch write of a pass
\* leaves last_read, status and notifications of every stored entry as they
\* were in the store just before the write.
C21_EngineKeepsUserFields ==
  [][\A p \in Procs :
       (pc[p] = "save" /\ pc'[p] = "idle") =>
         \A i \in DOMAIN watchlist' :
           i \in DOMAIN watchlist =>
             /\ watchlist'[i].last_read = watchlist[i].last_read
             /\ watchlist'[i].status = watchlist[i].status
             /\ watchlist'[i].notifications = watchlist[i].notifications]_vars

C23_LoopSurvivesFailure ==
  ret[Poller].kind = "raised" =>
    /\ poll_stats.last_error = clock
    /\ task.at \in {"sleep", "top"} \/ (task.at = "done" /\ task.cancel)
    /\ (task.at = "sleep" /\ ~task.cancel) => ENABLED LoopWake
    /\ (task.at = "top" /\ clock < MaxPasses) => ENABLED LoopPass

\* The first pass failed at time 1 and the loop is in its second pass.
W23_PassAfterFailure ==
  /\ poll_stats.last_error = 1
  /\ poll_stats.last_ok = 0
  /\ task.at = "pass"
  /\ started[Poller] = 2

(***************************************************************************)
(* The notification history.                                               *)
(***************************************************************************)
\* The ids of the events of a list.
IdsOf(items) == {items[i].id : i \in DOMAIN items}

\* The step is a request that added an event.
Added == call'.fn = "notify_test" /\ written' # written

\* The step is a request that deleted by id.
Deleted == call'.fn = "delete_notification" /\ written' # written

\* No two stored events share an id.
UniqueEventIds ==
  \A i, j \in DOMAIN history : history[i].id = history[j].id => i = j

\* C24: an added event gets the greatest stored id plus one, or 1 when the
\* history is empty, and whatever the requests were, add, delete or clear,
\* no two stored events share an id.
C24_NextIdAndUnique ==
  /\ []UniqueEventIds
  /\ [][Added =>
          Head(history').id =
            IF history = <<>> THEN 1
            ELSE (CHOOSE m \in IdsOf(history) :
                    \A n \in IdsOf(history) : n <= m) + 1]_vars

\* An event was added to a history that a deletion had left with a gap
\* below its greatest id.
W24_AddedAfterDelete ==
  /\ call.fn = "notify_test"
  /\ Len(history) = 2
  /\ history[1].id = 3
  /\ history[2].id = 2
  /\ \E k \in 1 .. Len(written) :
       written[k].store = "history" /\ 1 \in IdsOf(written[k].list)

\* The ids add_notification has assigned so far: every event that was ever
\* in the history file was put there by add_notification.
AssignedIds ==
  UNION {IdsOf(written[k].list) :
           k \in {j \in 1 .. Len(written) : written[j].store = "history"}}

\* C25: the id of an added event is greater than every id assigned before,
\* the ids of events deleted or cleared since included: no id is reused.
C25_IdsNeverReused ==
  [][Added => \A n \in AssignedIds : Head(history').id > n]_vars

\* C26: the stored history is in reverse order of insertion: an event
\* nearer the head was added later (the time of the request is the time the
\* event carries) and has the greater id.
C26_NewestFirst ==
  \A i, j \in DOMAIN history :
    i < j => /\ history[i].detected_at > history[j].detected_at
             /\ history[i].id > history[j].id

\* Three events were added and the middle one deleted.
W26_DeletedInTheMiddle ==
  /\ call.fn = "delete_notification"
  /\ call.arg = 2
  /\ call.ret = 1
  /\ Len(history) = 2
  /\ history[1].id = 3
  /\ history[2].id = 1

\* The positions of a list whose event has the id.
Matching(items, nid) == {i \in DOMAIN items : items[i].id = nid}

\* C27: an addition leaves the events already stored as they were, behind
\* the new one; a deletion removes the events with the id and no other,
\* keeps the rest in content and order, and answers the number removed
\* (none, and the same history, when no event has the id).
C27_OthersUntouched ==
  [][/\ Added => Tail(history') = history
     /\ Deleted =>
          LET nid == call'.arg
              gone == Matching(history, nid)
          IN  /\ call'.ret = Cardinality(gone)
              /\ Len(history') = Len(history) - Cardinality(gone)
              /\ Matching(history', nid) = {}
              /\ \A i \in DOMAIN history \ gone :
                    history'[i - Cardinality({k \in gone : k < i})] = history[i]
              /\ gone = {} => history' = history]_vars

\* The newer of two events was deleted, and before that a request to
\* delete an id no event had left the empty history as it was.
W27_DeletedNewest ==
  /\ call.fn = "delete_notification"
  /\ call.arg = 2
  /\ call.ret = 1
  /\ Len(history) = 1
  /\ history[1].id = 1
  /\ written[1].list = <<>>

(***************************************************************************)
(* The ids of the watchlist.                                               *)
(***************************************************************************)
\* C28: a watchlist whose ids are pairwise distinct keeps them so through
\* add_watch, import_watchlist, remove and process_once, the passes that
\* follow a merge to its target included.
C28_WatchlistIdsDistinct ==
  \A i, j \in DOMAIN watchlist : watchlist[i].id = watchlist[j].id => i = j

(***************************************************************************)
(* The watchlist file across a crash.                                      *)
(***************************************************************************)
\* The process died in save_watchlist and nothing was saved since.
Crashed == call.fn = "crash" /\ Len(written) = call.at

\* C29: after a crash inside save_watchlist, load_watchlist returns the
\* whole list stored before the save or the whole new list, never an empty
\* or a partial one.
C29_SaveIsAtomic ==
  Crashed => watchlist \in {call.old, call.new}

(***************************************************************************)
(* Totals that are not a count.                                            *)
(***************************************************************************)
\* A total_chapters that is null, empty, non-numeric or negative.
NotACount(j) == ~to_int(j).known \/ to_int(j).v < 0

\* C30: a fetched total that is null, empty, non-numeric or negative gives
\* no event and leaves the total of the entry as it was loaded; a stored
\* total that is unknown gives no event either.
C30_UnknownTotals ==
  \A i \in DOMAIN wl[Poller] :
    (Handled(Poller, i) /\ obs[Poller][i].fetched) =>
      /\ NotACount(obs[Poller][i].series.total_chapters) =>
           /\ EventsFor(Poller, i) = {}
           /\ wl[Poller][i].total_chapters = loaded[Poller][i].total_chapters
           /\ PassOver(Poller) =>
                watchlist[i].total_chapters = loaded[Poller][i].total_chapters
      /\ NotACount(loaded[Poller][i].total_chapters) => EventsFor(Poller, i) = {}

(***************************************************************************)
(* The contents of the events.                                             *)
(***************************************************************************)
\* C31: an event of the pass for entry i carries the total the entry had
\* when the pass loaded it, the total the pass fetched, and the unread count
\* max(new_total - last_read, 0) from the last_read the pass loaded; its
\* message names the loaded title and the fetched total and has the
\* "behind" sentence exactly when unread > 0.
C31_EventContents ==
  \A i \in DOMAIN wl[Poller] : \A k \in EventsFor(Poller, i) :
    /\ history[k].old_total = StoredTotal(Poller, i).v
    /\ history[k].new_total = FetchedTotal(Poller, i).v
    /\ history[k].unread = Max(FetchedTotal(Poller, i).v - loaded[Poller][i].last_read, 0)
    /\ history[k].message.title = loaded[Poller][i].title
    /\ history[k].message.total = FetchedTotal(Poller, i).v
    /\ (history[k].message.behind > 0) <=> (history[k].unread > 0)
    /\ history[k].unread > 0 => history[k].message.behind = history[k].unread

\* A finished pass recorded an event without the "behind" sentence for
\* entry 1, which was read up to the new total, and one with it for entry 2.
W31_ShortAndLongMessage ==
  /\ PassOver(Poller)
  /\ loaded[Poller][1].last_read = MaxTotal
  /\ \E k \in EventsFor(Poller, 1) :
       history[k].unread = 0 /\ history[k].message.behind = 0
  /\ \E k \in EventsFor(Poller, 2) :
       history[k].unread = MaxTotal /\ history[k].message.behind = MaxTotal

\* The pass records the event of the entry it is at.
Records(p) == pc[p] = "record" /\ pc'[p] = "update" /\ history' # history

\* C32: in the event a pass records, notifications_enabled is the policy
\* decision for the entry as loaded; push_ok (discord_ok) is true only if
\* the policy approved, the pushover (discord) preference of the entry is
\* on, the channel was called and it answered ok; both are false when
\* notifications_enabled is false.
C32_OutcomeFlags ==
  [][Records(Poller) =>
       LET i == idx[Poller]
           it == loaded[Poller][i]
           ev == Head(history')
       IN  /\ ev.notifications_enabled = _should_send_notification(it)
           /\ ev.push_ok =>
                /\ _should_send_notification(it)
                /\ GetFlag(it.notifications.pushover, TRUE)
                /\ obs[Poller][i].pushCalls >= 1
                /\ loc[Poller].pushover_result = "ok"
           /\ ev.discord_ok =>
                /\ _should_send_notification(it)
                /\ GetFlag(it.notifications.discord, TRUE)
                /\ obs[Poller][i].discCalls >= 1
                /\ loc[Poller].discord_result = "ok"
           /\ ~ev.notifications_enabled => (~ev.push_ok /\ ~ev.discord_ok)]_vars

\* A finished pass recorded for entry 1, whose discord preference is off,
\* an approved event delivered by Pushover only, and for entry 2 an event
\* that neither channel delivered.
W32_PushOnly ==
  /\ PassOver(Poller)
  /\ loaded[Poller][1].notifications.discord = "no"
  /\ \E k \in EventsFor(Poller, 1) :
       history[k].notifications_enabled /\ history[k].push_ok /\ ~history[k].discord_ok
  /\ \E k \in EventsFor(Poller, 2) :
       history[k].notifications_enabled /\ ~history[k].push_ok /\ ~history[k].discord_ok

(***************************************************************************)
(* The edit endpoints.                                                     *)
(***************************************************************************)
\* The fields of a watchlist entry other than notifications and last_checked.
OtherFields == {"id", "title", "total_chapters", "last_read", "status", "cover",
                "last_chapter_at"}

\* C33: a preference update for a series sets the fields its body provides
\* in the entry of that series, and last_checked; every other field of the
\* entry and every other entry, those add_watch created with the default
\* preferences included, stay as they were.
C33_PrefUpdateIsolated ==
  [][\A sid \in Ids, body \in PrefPatches :
       update_notification_preferences(sid, body) =>
         LET i == Find(watchlist, sid, 1) IN
           /\ DOMAIN watchlist' = DOMAIN watchlist
           /\ \A j \in DOMAIN watchlist : j # i => watchlist'[j] = watchlist[j]
           /\ \A f \in OtherFields : watchlist'[i][f] = watchlist[i][f]
           /\ \A f \in DOMAIN body :
                watchlist'[i].notifications[f] =
                  IF body[f] = "absent" THEN watchlist[i].notifications[f] ELSE body[f]]_vars

\* add_watch has added a third entry with the default preferences, and
\* then the notifications of entry 1 were switched off.
W33_OffBesideDefaults ==
  /\ Len(watchlist) = 3
  /\ Len(written) = 2
  /\ Len(written[1].list) = 3
  /\ watchlist[1].notifications.enabled = "no"
  /\ watchlist[2].notifications = NoPrefs
  /\ watchlist[3].notifications = AllOn

\* C34: last_read is never negative and the listing reports
\* unread = max(total_chapters - last_read, 0); set_progress with
\* mark_latest sets last_read to the stored total, with decrement d lowers
\* it by d but not below 0, with last_read v sets it to max(0, v), and
\* read_next adds 1.
C34_ProgressNonNegative ==
  /\ [](\A i \in DOMAIN watchlist :
          /\ watchlist[i].last_read >= 0
          /\ to_int(watchlist[i].total_chapters).known =>
               get_watchlist(watchlist)[i].unread =
                 Max(to_int(watchlist[i].total_chapters).v - watchlist[i].last_read, 0))
  /\ [][\A sid \in Ids, body \in ProgressBodies \cup DecrementBodies :
          set_progress(sid, body) =>
            LET i == Find(watchlist, sid, 1)
                total == to_int(watchlist[i].total_chapters)
            IN  /\ (body.k = "mark_latest" /\ total.known) =>
                     watchlist'[i].last_read = total.v
                /\ body.k = "decrement" =>
                     watchlist'[i].last_read = Max(0, watchlist[i].last_read - body.v)
                /\ body.k = "last_read" =>
                     watchlist'[i].last_read = Max(0, body.v)]_vars
  /\ [][\A sid \in Ids :
          read_next(sid) =>
            watchlist'[Find(watchlist, sid, 1)].last_read =
              watchlist[Find(watchlist, sid, 1)].last_read + 1]_vars

\* C35: in one pass each channel is called at most once for an entry, and
\* a channel whose preference is off for the entry is not called for it.
C35_ChannelSelection ==
  \A i \in DOMAIN wl[Poller] :
    /\ obs[Poller][i].pushCalls <= 1
    /\ obs[Poller][i].discCalls <= 1
    /\ ~GetFlag(loaded[Poller][i].notifications.pushover, TRUE) =>
         obs[Poller][i].pushCalls = 0
    /\ ~GetFlag(loaded[Poller][i].notifications.discord, TRUE) =>
         obs[Poller][i].discCalls = 0

\* A finished pass approved the event of entry 1, whose pushover
\* preference is off, and called Discord for it and not Pushover, and it
\* called both channels for entry 2, where Pushover did not deliver.
W35_DiscordOnly ==
  /\ PassOver(Poller)
  /\ loaded[Poller][1].notifications.pushover = "no"
  /\ \E k \in EventsFor(Poller, 1) : history[k].notifications_enabled
  /\ obs[Poller][1].pushCalls = 0
  /\ obs[Poller][1].discCalls = 1
  /\ obs[Poller][2].pushCalls = 1
  /\ obs[Poller][2].discCalls = 1
  /\ \E k \in EventsFor(Poller, 2) : ~history[k].push_ok

(***************************************************************************)
(* The order of a pass.                                                    *)
(***************************************************************************)
\* C36: a pass handles the entries in the order of the list it loaded: the
\* position never moves back, a step touches the entry at the position and
\* no other, and the entries behind the position are untouched (no request,
\* no channel call, no event, no refresh); the list written at the end has
\* the entries of the loaded list at their positions, each with the
\* last_read, status and notifications it was loaded with and with its id
\* or the id it was merged with.
C36_InOrder ==
  /\ [](\A i \in DOMAIN wl[Poller] :
          (pc[Poller] # "idle" /\ i > idx[Poller]) =>
            /\ obs[Poller][i] = ObsInit
            /\ wl[Poller][i] = loaded[Poller][i])
  /\ [](PassOver(Poller) =>
          /\ Len(watchlist) = Len(loaded[Poller])
          /\ \A i \in DOMAIN watchlist :
               /\ watchlist[i].last_read = loaded[Poller][i].last_read
               /\ watchlist[i].status = loaded[Poller][i].status
               /\ watchlist[i].notifications = loaded[Poller][i].notifications
               /\ watchlist[i].id \in {loaded[Poller][i].id,
                                       upstream[loaded[Poller][i].id].merged_with})
  /\ [][pc[Poller] # "idle" =>
          /\ idx'[Poller] >= idx[Poller]
          /\ \A i \in DOMAIN wl[Poller] :
               i # idx[Poller] =>
                 /\ obs'[Poller][i] = obs[Poller][i]
                 /\ wl'[Poller][i] = wl[Poller][i]]_vars

\* A finished pass moved entry 1 to the id it was merged with and
\* refreshed it, then requested entry 2 three times, and wrote both at
\* their positions.
W36_BothInPlace ==
  /\ PassOver(Poller)
  /\ loaded[Poller][1].id = 1
  /\ watchlist[1].id = 3
  /\ obs[Poller][1].refetches = 1
  /\ obs[Poller][1].updated
  /\ watchlist[2].id = 2
  /\ obs[Poller][2].fetches = MaxAttempts
  /\ watchlist[2] = loaded[Poller][2]

(***************************************************************************)
(* The sleep between two passes.                                           *)
(***************************************************************************)
\* C37: for an interval of at least one second the sleep is the interval
\* plus a jitter of at most a tenth of it either way, and it is never
\* shorter than one second (1000 ms).
C37_SleepFloor ==
  (call.fn = "sleep_for" /\ call.done /\ call.arg.base_interval >= 1) =>
    /\ call.ret >= 1000
    /\ call.ret >= 900 * call.arg.base_interval
    /\ call.ret <= 1100 * call.arg.base_interval

\* The interval is one second and the draw the lowest: the floor decides
\* the sleep, which is still within a tenth of the interval.
W37_FloorApplies ==
  /\ call.fn = "sleep_for" /\ call.done
  /\ call.arg.base_interval = 1
  /\ call.arg.u = -100
  /\ call.ret = 1000

(***************************************************************************)
(* Events across passes.                                                   *)
(***************************************************************************)
\* C38: no two chapter_update events of a series carry the same new_total,
\* whatever happened in the passes that recorded them (the upstream totals
\* never decrease: they do not change).
C38_NoProgressTwice ==
  \A j, k \in DOMAIN history :
    (/\ j # k
     /\ history[j].kind = "chapter_update"
     /\ history[k].kind = "chapter_update"
     /\ history[j].series_id = history[k].series_id) =>
      history[j].new_total # history[k].new_total

(***************************************************************************)
(* Membership across the batch write.                                       *)
(***************************************************************************)
\* The step is the batch write of the pass of p.
BatchWrite(p) == pc[p] = "save" /\ pc'[p] = "idle"

\* Entry b is entry a, under its id or under the id a was merged with.
SameEntry(a, b) ==
  \/ b.id = a.id
  \/ a.id \in Ids /\ IsMerged(upstream[a.id]) /\ b.id = upstream[a.id].merged_with

\* C39. Watchlist membership is not changed by a pass: the entries the batch
\* write of a pass persists are, one for one, the entries that were in the
\* store immediately before that write (an entry may have moved to the id it
\* was merged with); so an entry removed, or added, by a request while the
\* pass was in flight is still removed, or present, after the write.
C39_MembershipKept ==
  [][BatchWrite(Poller) =>
       /\ Len(watchlist') = Len(watchlist)
       /\ \A i \in DOMAIN watchlist : SameEntry(watchlist[i], watchlist'[i])]_vars

(***************************************************************************)
(* The requests of a pass and its end.                                      *)
(***************************************************************************)
\* The upstream requests the pass of p has made for the entry at position i.
FetchCalls(p, i) == obs[p][i].fetches + obs[p][i].refetches

\* C40. Pass termination: while every request and every channel call returns
\* or raises, a pass that has started ends; for each entry it makes at most
\* MaxAttempts requests in the retry loop and at most one for a merge target,
\* MaxAttempts + 1 (4) in all, and none for an entry without an id.
C40_PassTerminates ==
  /\ [](\A i \in DOMAIN obs[Poller] :
          /\ obs[Poller][i].fetches <= MaxAttempts
          /\ obs[Poller][i].refetches <= 1
          /\ FetchCalls(Poller, i) <= MaxAttempts + 1
          /\ loaded[Poller][i].id = 0 => FetchCalls(Poller, i) = 0)
  /\ (pc[Poller] # "idle" ~> pc[Poller] = "idle")

\* A pass has ended that made four requests for entry 1 (two that failed, one
\* that reported the merge, one for the target) and none for the entry
\* without an id.
W40_FourRequests ==
  /\ PassOver(Poller)
  /\ obs[Poller][1].fetches = MaxAttempts
  /\ obs[Poller][1].refetches = 1
  /\ loaded[Poller][2].id = 0
  /\ FetchCalls(Poller, 2) = 0
  /\ obs[Poller][3].fetched


====
